---- MODULE Spec2Model ----
(***************************************************************************)
(* Viability-label construction (TargetCreator), leakage guard             *)
(* (criar_features_limpas / preparar_dados_limpos) and the preparation of  *)
(* the matrix handed to the class balancer.                                *)
(*                                                                         *)
(* Number representation.  pandas floats are modelled by exact scaled      *)
(* integers:                                                               *)
(*   ValorCausa            whole currency units                            *)
(*   Valor_Medio, Potencial_Financeiro   hundredths (after .round(2))      *)
(*   Taxa_Sucesso          thousandths (after .round(3))                   *)
(*   ValorCausaConfianca   tenths                                          *)
(*   quantiles             four times the unit of the quantity (the        *)
(*                         interpolation weights are 1/4, 2/4 and 3/4)     *)
(*   taxa_sucesso_minima / taxa_sucesso_boa   fractions num/den            *)
(* NaN and Inf are the two non-finite floats pandas produces here.         *)
(***************************************************************************)
EXTENDS Integers, Sequences, FiniteSets, TLC

VARIABLES
    \* ---- TargetCreator instance (src/target_creation.py)
    df,               \* self.df: sequence of records
    stats_assuntos,   \* self.stats_assuntos: [none, rows]
    criterios,        \* self.criterios: [vazio, ...thresholds]
    df_com_target,    \* self.df_com_target: [set, rows]
    ret,              \* outcome of the last TargetCreator call
    \* ---- one record going through the scoring blocks of criar_variavel_target
    sc_pc,            \* position inside criar_variavel_target
    sc_in,            \* the inputs the current block reads
    sc_row,           \* the row of df_target being built
    \* ---- one frame going through the leakage guard / the balancing entry points
    g_pc,             \* which function of the feature pipeline ran last
    g_frame,          \* the frame handed in: its columns and whether its
                      \* categorical columns hold any value
    g_clean,          \* the column sets returned by successive strips
    g_X,              \* the columns of the feature matrix X produced
    g_ret,            \* outcome of the last call
    \* ---- one DataBalancer object
    balancing_strategies,  \* self.balancing_strategies: dict, in insertion order
    results_comparison,    \* self.results_comparison: dict, in insertion order
    b_dados,          \* the caller's dataset (X, y) and configuration: the class
                      \* counts of y, what the geometry of X makes the cleaning
                      \* steps do, and the target_ratio the caller passes
    b_call,           \* the last method call: its name and arguments
    b_ret,            \* what that call returned or raised
    random_state,     \* self.random_state: the seed, as the generator state the
                      \* next sampler starts from
    b_sorteio         \* the generator state the samplers of the last call drew
                      \* from (<<>> when it ran none): with the dataset it
                      \* fixes the rows of the X returned

scorerVars == <<df, stats_assuntos, criterios, df_com_target, ret>>
scoreVars  == <<sc_pc, sc_in, sc_row>>
guardVars  == <<g_pc, g_frame, g_clean, g_X, g_ret>>
balancerVars ==
    <<balancing_strategies, results_comparison, b_dados, b_call, b_ret,
      random_state, b_sorteio>>
vars == <<scorerVars, scoreVars, guardVars, balancerVars>>

----------------------------------------------------------------------------
\* Bounds of the model

MaxRecords == 2      \* rows of the frame given to TargetCreator
MaxValor == 2        \* ValorCausa ranges over 1..MaxValor (and NaN)
MaxAmostra == 4      \* records of the frame the value and success thresholds come from
MaxCategorias == 3   \* categories the potential thresholds come from
MaxQuantidade == 5   \* non-null values of one category in a drawn statistics row

----------------------------------------------------------------------------
\* Non-finite floats

NaN == -1
Inf == -2

Nulo == "<NA>"       \* a null DescricaoAssunto

Assuntos == {"A", "B"}
Valores == 1..MaxValor
Confiancas == {5, 6}

Record == [DescricaoAssunto : Assuntos \cup {Nulo},
           ValorCausa : Valores \cup {NaN},
           ValorCausaConfianca : Confiancas,
           Atendida : {"S", "N"}]

----------------------------------------------------------------------------
\* numpy/pandas arithmetic on the scaled integers

\* round-half-to-even of num/den (num >= 0, den > 0)
RoundHalfEven(num, den) ==
    LET q == num \div den
        r == num % den
    IN  IF 2 * r < den THEN q
        ELSE IF 2 * r > den THEN q + 1
        ELSE IF q % 2 = 0 THEN q ELSE q + 1

\* j-th smallest (0-based) value of the finite family f (a function to Int)
OrderStat(f, j) ==
    CHOOSE x \in {f[i] : i \in DOMAIN f} :
        /\ Cardinality({i \in DOMAIN f : f[i] < x}) <= j
        /\ Cardinality({i \in DOMAIN f : f[i] <= x}) > j

\* Series.quantile(k/4), linear interpolation, NaN skipped; result times 4
Quantil4(f, k) ==
    LET g == [i \in {i \in DOMAIN f : f[i] # NaN} |-> f[i]]
        n == Cardinality(DOMAIN g)
        h == (n - 1) * k
        lo == h \div 4
        r == h % 4
    IN  IF n = 0 THEN NaN
        ELSE IF r = 0 THEN 4 * OrderStat(g, lo)
        ELSE 4 * OrderStat(g, lo) + r * (OrderStat(g, lo + 1) - OrderStat(g, lo))

\* Series.fillna(0)
FillNa0(x) == IF x = NaN THEN 0 ELSE x

RECURSIVE SumOver(_, _)
SumOver(f, S) ==
    IF S = {} THEN 0
    ELSE LET i == CHOOSE i \in S : TRUE
         IN  f[i] + SumOver(f, S \ {i})

----------------------------------------------------------------------------
\* calcular_estatisticas_historicas: one row per DescricaoAssunto group

\* a statistics row from the aggregates of a group: q = count of non-null
\* ValorCausa, soma = their sum, cr = number of records with Atendida == 'S'
StatsRow(a, q, soma, cr) ==
    LET medio == IF q = 0 THEN NaN ELSE RoundHalfEven(100 * soma, q)
        taxa == IF q = 0 THEN (IF cr = 0 THEN NaN ELSE Inf)
                ELSE RoundHalfEven(1000 * cr, q)
        pot == IF medio = NaN \/ taxa = NaN \/ taxa = Inf THEN NaN
               ELSE RoundHalfEven(medio * taxa, 1000)
    IN  [DescricaoAssunto |-> a,
         Quantidade |-> q,
         Valor_Medio |-> medio,
         Casos_Resolvidos |-> cr,
         Taxa_Sucesso |-> taxa,
         Potencial_Financeiro |-> pot]

\* groupby('DescricaoAssunto') drops the null key
Categorias(d) == {d[i].DescricaoAssunto : i \in DOMAIN d} \ {Nulo}

Grupo(d, a) == {i \in DOMAIN d : d[i].DescricaoAssunto = a}

GroupStats(d, a) ==
    LET comValor == {i \in Grupo(d, a) : d[i].ValorCausa # NaN}
        valor == [i \in DOMAIN d |-> d[i].ValorCausa]
    IN  StatsRow(a,
                 Cardinality(comValor),
                 SumOver(valor, comValor),
                 Cardinality({i \in Grupo(d, a) : d[i].Atendida = "S"}))

ComputeStats(d) == {GroupStats(d, a) : a \in Categorias(d)}

----------------------------------------------------------------------------
\* definir_criterios_viabilidade

ConfiancaMinima == 6     \* 'confianca_minima': 0.6, in tenths
VolumeMinimo == 5        \* 'volume_minimo': 5

\* quartis_valor / quartis_potencial of a family of values
Quartis(f) == [q25 |-> Quantil4(f, 1), q50 |-> Quantil4(f, 2), q75 |-> Quantil4(f, 3)]

\* taxa_sucesso_geral * 0.8 and * 1.1, with taxa_sucesso_geral = resolvidos/total
TaxaSucessoMinima(resolvidos, total) == [num |-> 8 * resolvidos, den |-> 10 * total]
TaxaSucessoBoa(resolvidos, total) == [num |-> 11 * resolvidos, den |-> 10 * total]

\* the criterios dict from the two quantile tables and the global success rate
MakeCriterios(qv, qp, resolvidos, total) ==
    [vazio |-> FALSE,
     valor_minimo_baixo |-> qv.q25,
     valor_minimo_medio |-> qv.q50,
     valor_minimo_alto |-> qv.q75,
     taxa_sucesso_minima |-> TaxaSucessoMinima(resolvidos, total),
     taxa_sucesso_boa |-> TaxaSucessoBoa(resolvidos, total),
     potencial_minimo |-> qp.q50,
     potencial_bom |-> qp.q75,
     confianca_minima |-> ConfiancaMinima,
     volume_minimo |-> VolumeMinimo]

\* self.criterios = {} of __init__
CriteriosVazio ==
    [vazio |-> TRUE,
     valor_minimo_baixo |-> NaN, valor_minimo_medio |-> NaN, valor_minimo_alto |-> NaN,
     taxa_sucesso_minima |-> [num |-> 0, den |-> 1],
     taxa_sucesso_boa |-> [num |-> 0, den |-> 1],
     potencial_minimo |-> NaN, potencial_bom |-> NaN,
     confianca_minima |-> NaN, volume_minimo |-> NaN]

ComputeCriterios(d, rows) ==
    MakeCriterios(Quartis([i \in DOMAIN d |-> d[i].ValorCausa]),
                  Quartis([r \in rows |-> r.Potencial_Financeiro]),
                  Cardinality({i \in DOMAIN d : d[i].Atendida = "S"}),
                  Len(d))

----------------------------------------------------------------------------
\* criar_variavel_target: comparisons of a column with a threshold
\* (a comparison with NaN is False)

\* x (unit u) against a quantile t4 (unit u/4)
GeQ(x, t4) == x # NaN /\ t4 # NaN /\ 4 * x >= t4
LtQ(x, t4) == x # NaN /\ t4 # NaN /\ 4 * x < t4

\* a rate t (thousandths, or Inf) against a fraction fr = num/den
GeF(t, fr) == t # NaN /\ (t = Inf \/ t * fr.den >= 1000 * fr.num)
LtF(t, fr) == t # NaN /\ t # Inf /\ t * fr.den < 1000 * fr.num

\* a rate t against the literal 0.5
GeHalf(t) == t # NaN /\ (t = Inf \/ t >= 500)

\* the .loc assignments are executed in order: the last mask that is True wins

\* SCORE 1: Valor da causa
ScoreValor(valor, baixo, medio, alto) ==
    IF GeQ(valor, baixo) /\ LtQ(valor, medio) THEN 1
    ELSE IF GeQ(valor, medio) /\ LtQ(valor, alto) THEN 2
    ELSE IF GeQ(valor, alto) THEN 3
    ELSE 0

\* mutation: the second mask without its upper limit
ScoreSucessoSemLimite(taxa, minima, boa) ==
    IF GeHalf(taxa) /\ LtF(taxa, minima) THEN 1
    ELSE IF GeF(taxa, minima) THEN 2
    ELSE IF GeF(taxa, boa) THEN 3
    ELSE 0

\* SCORE 2: Taxa de sucesso do assunto (taxa is the column after fillna(0))
ScoreSucesso(taxa, minima, boa) ==
    IF GeHalf(taxa) /\ LtF(taxa, minima) THEN 1
    ELSE IF GeF(taxa, minima) /\ LtF(taxa, boa) THEN 2
    ELSE IF GeF(taxa, boa) THEN 3
    ELSE 0

\* SCORE 3: Potencial financeiro (pot is the column after fillna(0))
ScorePotencial(pot, minimo, bom) ==
    IF GeQ(pot, minimo) /\ LtQ(pot, bom) THEN 1
    ELSE IF GeQ(pot, bom) THEN 2
    ELSE 0

\* SCORE 4: Confiabilidade da estimativa
ScoreConfianca(conf, minima) ==
    IF conf # NaN /\ minima # NaN /\ conf >= minima THEN 1 ELSE 0

\* SCORE 5: Volume historico do assunto (quant is the column after fillna(0))
ScoreVolume(quant, minimo) ==
    IF quant # NaN /\ minimo # NaN /\ quant >= minimo THEN 1 ELSE 0

\* mutation: the volume score left out of the sum
ScoreTotalSemVolume(row) ==
    row.Score_Valor + row.Score_Sucesso + row.Score_Potencial + row.Score_Confianca

\* SCORE TOTAL
ScoreTotal(row) ==
    row.Score_Valor + row.Score_Sucesso + row.Score_Potencial
        + row.Score_Confianca + row.Score_Volume

\* mutation: ALTA only above 7
ViabilidadeCorteEstrito(total) ==
    IF total >= 3 /\ total < 5 THEN "BAIXA"
    ELSE IF total >= 5 /\ total < 7 THEN "MEDIA"
    ELSE IF total > 7 THEN "ALTA"
    ELSE "NAO VIAVEL"

\* CLASSIFICACAO FINAL ('NÃO VIÁVEL' and 'MÉDIA' are written without accents)
ViabilidadeDetalhada(total) ==
    IF total >= 3 /\ total < 5 THEN "BAIXA"
    ELSE IF total >= 5 /\ total < 7 THEN "MEDIA"
    ELSE IF total >= 7 THEN "ALTA"
    ELSE "NAO VIAVEL"

\* mutation: viable only above 5
ViavelAcimaDe5(total) == IF total > 5 THEN 1 ELSE 0

\* TARGET BINARIO
Viavel(total) == IF total >= 5 THEN 1 ELSE 0

ViavelLabel(v) == IF v = 1 THEN "VIAVEL" ELSE "NAO VIAVEL"

\* left merge with stats_para_merge on DescricaoAssunto: the three joined
\* columns, NaN when the key has no row
MergeStats(a, rows) ==
    IF \E r \in rows : r.DescricaoAssunto = a
    THEN LET r == CHOOSE r \in rows : r.DescricaoAssunto = a
         IN  [Taxa_Sucesso |-> r.Taxa_Sucesso,
              Potencial_Financeiro |-> r.Potencial_Financeiro,
              Quantidade |-> r.Quantidade]
    ELSE [Taxa_Sucesso |-> NaN, Potencial_Financeiro |-> NaN, Quantidade |-> NaN]

\* one row of df_target
TargetRow(rec, rows, c) ==
    LET m == MergeStats(rec.DescricaoAssunto, rows)
        taxa == FillNa0(m.Taxa_Sucesso)
        pot == FillNa0(m.Potencial_Financeiro)
        quant == FillNa0(m.Quantidade)
        scores == [Score_Valor |-> ScoreValor(rec.ValorCausa, c.valor_minimo_baixo,
                                                 c.valor_minimo_medio, c.valor_minimo_alto),
                   Score_Sucesso |-> ScoreSucesso(taxa, c.taxa_sucesso_minima,
                                                   c.taxa_sucesso_boa),
                   Score_Potencial |-> ScorePotencial(pot, c.potencial_minimo,
                                                       c.potencial_bom),
                   Score_Confianca |-> ScoreConfianca(rec.ValorCausaConfianca,
                                                       c.confianca_minima),
                   Score_Volume |-> ScoreVolume(quant, c.volume_minimo)]
        total == ScoreTotal(scores)
    IN  [DescricaoAssunto |-> rec.DescricaoAssunto,
         ValorCausa |-> rec.ValorCausa,
         ValorCausaConfianca |-> rec.ValorCausaConfianca,
         Atendida |-> rec.Atendida,
         Taxa_Sucesso |-> taxa,
         Potencial_Financeiro |-> pot,
         Quantidade |-> quant,
         Score_Valor |-> scores.Score_Valor,
         Score_Sucesso |-> scores.Score_Sucesso,
         Score_Potencial |-> scores.Score_Potencial,
         Score_Confianca |-> scores.Score_Confianca,
         Score_Volume |-> scores.Score_Volume,
         Score_Total |-> total,
         Viabilidade_Detalhada |-> ViabilidadeDetalhada(total),
         Viavel |-> Viavel(total),
         Viavel_Label |-> ViavelLabel(Viavel(total))]

----------------------------------------------------------------------------
\* TargetCreator as a state machine: any method may be called at any time

ScoreIdle ==
    /\ sc_pc = "idle"
    /\ sc_in = <<>>
    /\ sc_row = <<>>

GuardIdle ==
    /\ g_pc = "idle"
    /\ g_frame = [cols |-> {}, comValores |-> FALSE]
    /\ g_clean = <<>>
    /\ g_X = {}
    /\ g_ret = "idle"

BalancerIdle ==
    /\ balancing_strategies = <<>>
    /\ results_comparison = <<>>
    /\ b_dados = [y |-> <<0, 0>>, o |-> <<0, 0>>, target_ratio |-> [num |-> 0, den |-> 1]]
    /\ b_call = [op |-> "idle"]
    /\ b_ret = [tipo |-> "idle"]
    /\ random_state = [semente |-> 0, posicao |-> 0]
    /\ b_sorteio = <<>>

ScorerIdle ==
    /\ df = <<>>
    /\ stats_assuntos = [none |-> TRUE, rows |-> {}]
    /\ criterios = CriteriosVazio
    /\ df_com_target = [set |-> FALSE, rows |-> <<>>]
    /\ ret = "idle"

\* TargetCreator(df_sindec_com_valores)
InitTarget ==
    /\ df \in UNION {[1..n -> Record] : n \in 1..MaxRecords}
    /\ stats_assuntos = [none |-> TRUE, rows |-> {}]
    /\ criterios = CriteriosVazio
    /\ df_com_target = [set |-> FALSE, rows |-> <<>>]
    /\ ret = "novo"
    /\ ScoreIdle
    /\ GuardIdle
    /\ BalancerIdle

calcular_estatisticas_historicas ==
    /\ ret # "idle"
    /\ stats_assuntos' = [none |-> FALSE, rows |-> ComputeStats(df)]
    /\ ret' = "stats"
    /\ UNCHANGED <<df, criterios, df_com_target, scoreVars, guardVars, balancerVars>>

\* mutation: the thresholds are computed whether or not statistics exist
definir_criterios_sem_estatisticas ==
    /\ ret # "idle"
    /\ criterios' = ComputeCriterios(df, stats_assuntos.rows)
    /\ ret' = "criterios"
    /\ UNCHANGED <<df, stats_assuntos, df_com_target, scoreVars, guardVars, balancerVars>>

\* subscripting self.stats_assuntos while it is None raises TypeError
definir_criterios_viabilidade ==
    /\ ret # "idle"
    /\ IF stats_assuntos.none
       THEN /\ ret' = "raise"
            /\ UNCHANGED criterios
       ELSE /\ criterios' = ComputeCriterios(df, stats_assuntos.rows)
            /\ ret' = "criterios"
    /\ UNCHANGED <<df, stats_assuntos, df_com_target, scoreVars, guardVars, balancerVars>>

\* returns None without statistics; self.criterios['valor_minimo_alto'] of the
\* empty dict raises KeyError; otherwise stores and returns df_target
criar_variavel_target ==
    /\ ret # "idle"
    /\ IF stats_assuntos.none
       THEN /\ ret' = "None"
            /\ UNCHANGED df_com_target
       ELSE IF criterios.vazio
       THEN /\ ret' = "raise"
            /\ UNCHANGED df_com_target
       ELSE /\ df_com_target' =
                   [set |-> TRUE,
                    rows |-> [i \in DOMAIN df |->
                                 TargetRow(df[i], stats_assuntos.rows, criterios)]]
            /\ ret' = "frame"
    /\ UNCHANGED <<df, stats_assuntos, criterios, scoreVars, guardVars, balancerVars>>

NextTarget ==
    \/ calcular_estatisticas_historicas
    \/ definir_criterios_viabilidade
    \/ criar_variavel_target

SpecTarget == InitTarget /\ [][NextTarget]_vars

----------------------------------------------------------------------------
\* criar_variavel_target followed block by block for one record.  Every
\* column and every threshold is read by exactly one block, so each block
\* draws what it reads when it reads it: the thresholds as
\* definir_criterios_viabilidade derives them from a sample, the joined
\* statistics as calcular_estatisticas_historicas derives them from a group.

Amostras(S) == UNION {[1..n -> S] : n \in 1..MaxAmostra}

\* potentials of the other categories of a sample
PotAmostra == {NaN} \cup {100 * v : v \in 0..MaxValor}

\* what block 1 can read: the ValorCausa of one record of a frame and the
\* three value thresholds of that frame
EntradasValor ==
    UNION {{[ValorCausa |-> amostra[i],
             valor_minimo_baixo |-> Quartis(amostra).q25,
             valor_minimo_medio |-> Quartis(amostra).q50,
             valor_minimo_alto |-> Quartis(amostra).q75] : i \in DOMAIN amostra}
           : amostra \in Amostras(Valores \cup {NaN})}

\* what the left merge can join to a record: the statistics of its category
\* (q non-null values of sum soma, cr resolved records, one of which may have
\* a null value), or NaN when the key has no row
LinhasMerge ==
    UNION {{MergeStats(a, {StatsRow("A", q, soma, cr)}) :
               soma \in (q * 1)..(q * MaxValor), cr \in 0..(q + 1)}
           : a \in {"A", Nulo}, q \in 0..MaxQuantidade}

\* what block 3 can read as thresholds when the record's category has
\* potential p (NaN, so skipped, when it has none): the percentiles of p and
\* of the potentials of the other categories
EntradasPotencial ==
    [p \in {m.Potencial_Financeiro : m \in LinhasMerge} |->
        UNION {{Quartis(<<p>> \o outros) : outros \in [1..n -> PotAmostra]}
               : n \in 0..(MaxCategorias - 1)}]

InitScore ==
    /\ ScorerIdle
    /\ sc_pc = "start"
    /\ sc_in = <<>>
    /\ sc_row = <<>>
    /\ GuardIdle
    /\ BalancerIdle

\* the left merge and the initialisation of the five score columns
sc_merge ==
    /\ sc_pc = "start"
    /\ \E m \in LinhasMerge :
          sc_row' = [Taxa_Sucesso |-> m.Taxa_Sucesso,
                     Potencial_Financeiro |-> m.Potencial_Financeiro,
                     Quantidade |-> m.Quantidade,
                     Score_Valor |-> 0, Score_Sucesso |-> 0,
                     Score_Potencial |-> 0, Score_Confianca |-> 0,
                     Score_Volume |-> 0,
                     Score_Total |-> NaN, Viabilidade_Detalhada |-> "",
                     Viavel |-> NaN, Viavel_Label |-> ""]
    /\ sc_in' = <<>>
    /\ sc_pc' = "merged"
    /\ UNCHANGED <<scorerVars, guardVars, balancerVars>>

\* SCORE 1
sc_valor ==
    /\ sc_pc = "merged"
    /\ \E e \in EntradasValor :
          /\ sc_in' = e
          /\ sc_row' = [sc_row EXCEPT !.Score_Valor =
                           ScoreValor(e.ValorCausa, e.valor_minimo_baixo,
                                      e.valor_minimo_medio, e.valor_minimo_alto)]
    /\ sc_pc' = "valor"
    /\ UNCHANGED <<scorerVars, guardVars, balancerVars>>

\* SCORE 2
sc_sucesso ==
    /\ sc_pc = "valor"
    /\ \E total \in 1..MaxAmostra :
       \E resolvidos \in 0..total :
          LET minima == TaxaSucessoMinima(resolvidos, total)
              boa == TaxaSucessoBoa(resolvidos, total)
              taxa == FillNa0(sc_row.Taxa_Sucesso)
          IN  /\ sc_in' = [Taxa_Sucesso |-> sc_row.Taxa_Sucesso,
                           taxa_sucesso_minima |-> minima,
                           taxa_sucesso_boa |-> boa]
              /\ sc_row' = [sc_row EXCEPT !.Taxa_Sucesso = taxa,
                               !.Score_Sucesso = ScoreSucesso(taxa, minima, boa)]
    /\ sc_pc' = "sucesso"
    /\ UNCHANGED <<scorerVars, guardVars, balancerVars>>

\* SCORE 3
sc_potencial ==
    /\ sc_pc = "sucesso"
    /\ \E qp \in EntradasPotencial[sc_row.Potencial_Financeiro] :
          LET pot == FillNa0(sc_row.Potencial_Financeiro)
          IN  /\ sc_in' = [Potencial_Financeiro |-> sc_row.Potencial_Financeiro,
                           potencial_minimo |-> qp.q50,
                           potencial_bom |-> qp.q75]
              /\ sc_row' = [sc_row EXCEPT !.Potencial_Financeiro = pot,
                               !.Score_Potencial = ScorePotencial(pot, qp.q50, qp.q75)]
    /\ sc_pc' = "potencial"
    /\ UNCHANGED <<scorerVars, guardVars, balancerVars>>

\* SCORE 4
sc_confianca ==
    /\ sc_pc = "potencial"
    /\ \E conf \in Confiancas :
          /\ sc_in' = [ValorCausaConfianca |-> conf,
                       confianca_minima |-> ConfiancaMinima]
          /\ sc_row' = [sc_row EXCEPT !.Score_Confianca =
                           ScoreConfianca(conf, ConfiancaMinima)]
    /\ sc_pc' = "confianca"
    /\ UNCHANGED <<scorerVars, guardVars, balancerVars>>

\* SCORE 5
sc_volume ==
    /\ sc_pc = "confianca"
    /\ LET quant == FillNa0(sc_row.Quantidade)
       IN  /\ sc_in' = [Quantidade |-> sc_row.Quantidade,
                        volume_minimo |-> VolumeMinimo]
           /\ sc_row' = [sc_row EXCEPT !.Quantidade = quant,
                            !.Score_Volume = ScoreVolume(quant, VolumeMinimo)]
    /\ sc_pc' = "volume"
    /\ UNCHANGED <<scorerVars, guardVars, balancerVars>>

\* SCORE TOTAL
sc_total ==
    /\ sc_pc = "volume"
    /\ sc_row' = [sc_row EXCEPT !.Score_Total = ScoreTotal(sc_row)]
    /\ sc_in' = <<>>
    /\ sc_pc' = "total"
    /\ UNCHANGED <<scorerVars, guardVars, balancerVars>>

\* CLASSIFICACAO FINAL and TARGET BINARIO
sc_classificacao ==
    /\ sc_pc = "total"
    /\ sc_row' = [sc_row EXCEPT
                     !.Viabilidade_Detalhada = ViabilidadeDetalhada(sc_row.Score_Total),
                     !.Viavel = Viavel(sc_row.Score_Total),
                     !.Viavel_Label = ViavelLabel(Viavel(sc_row.Score_Total))]
    /\ sc_in' = <<>>
    /\ sc_pc' = "final"
    /\ UNCHANGED <<scorerVars, guardVars, balancerVars>>

NextScore ==
    \/ sc_merge
    \/ sc_valor
    \/ sc_sucesso
    \/ sc_potencial
    \/ sc_confianca
    \/ sc_volume
    \/ sc_total
    \/ sc_classificacao

SpecScore == InitScore /\ [][NextScore]_vars

----------------------------------------------------------------------------
\* Properties of the scoring blocks (checked under SpecScore)

ScoreColumnsSet == sc_pc \in {"total", "final"}

\* C1: for every labelled record Score_Total is the sum of the five
\* sub-scores and lies in 0..10, Score_Valor and Score_Sucesso lie in 0..3,
\* Score_Potencial in 0..2, Score_Confianca and Score_Volume in 0..1.
C1_ScoreTotalIsBoundedSum ==
    ScoreColumnsSet =>
        /\ sc_row.Score_Total = sc_row.Score_Valor + sc_row.Score_Sucesso
               + sc_row.Score_Potencial + sc_row.Score_Confianca + sc_row.Score_Volume
        /\ sc_row.Score_Total \in 0..10
        /\ sc_row.Score_Valor \in 0..3
        /\ sc_row.Score_Sucesso \in 0..3
        /\ sc_row.Score_Potencial \in 0..2
        /\ sc_row.Score_Confianca \in 0..1
        /\ sc_row.Score_Volume \in 0..1

\* a record that collects every point
C1_Witness ==
    /\ sc_pc = "final"
    /\ sc_row.Score_Total = 10
    /\ sc_row.Score_Valor = 3
    /\ sc_row.Score_Volume = 1

\* C2: for every labelled record Viabilidade_Detalhada is ALTA or MEDIA
\* exactly when Viavel is 1, and BAIXA or NAO VIAVEL exactly when Viavel is 0.
C2_DetailedLabelAgreesWithBinary ==
    sc_pc = "final" =>
        /\ sc_row.Viabilidade_Detalhada \in {"ALTA", "MEDIA"} <=> sc_row.Viavel = 1
        /\ sc_row.Viabilidade_Detalhada \in {"BAIXA", "NAO VIAVEL"} <=> sc_row.Viavel = 0

\* a record on the boundary between the two binary classes
C2_Witness ==
    /\ sc_pc = "final"
    /\ sc_row.Score_Total = 5
    /\ sc_row.Viabilidade_Detalhada = "MEDIA"
    /\ sc_row.Viavel = 1

\* The rule table, read as a cascade ("3 if ..., else 2 if ..., else ...")
RegraValor(valor, baixo, medio, alto) ==
    IF GeQ(valor, alto) THEN 3
    ELSE IF GeQ(valor, medio) THEN 2
    ELSE IF GeQ(valor, baixo) THEN 1
    ELSE 0

RegraSucesso(taxa, minima, boa) ==
    IF GeF(taxa, boa) THEN 3
    ELSE IF GeF(taxa, minima) THEN 2
    ELSE IF GeHalf(taxa) THEN 1
    ELSE 0

RegraPotencial(pot, minimo, bom) ==
    IF GeQ(pot, bom) THEN 2
    ELSE IF GeQ(pot, minimo) THEN 1
    ELSE 0

\* C3: each block assigns its sub-score by the rule table, given the
\* thresholds of definir_criterios_viabilidade and the statistics of the
\* record's category (for the three category-dependent scores: when the
\* category has that statistic).
C3_SubScoresFollowRuleTable ==
    /\ sc_pc = "valor" =>
           sc_row.Score_Valor = RegraValor(sc_in.ValorCausa, sc_in.valor_minimo_baixo,
                                           sc_in.valor_minimo_medio, sc_in.valor_minimo_alto)
    /\ (sc_pc = "sucesso" /\ sc_in.Taxa_Sucesso # NaN) =>
           sc_row.Score_Sucesso = RegraSucesso(sc_in.Taxa_Sucesso,
                                               sc_in.taxa_sucesso_minima,
                                               sc_in.taxa_sucesso_boa)
    /\ (sc_pc = "potencial" /\ sc_in.Potencial_Financeiro # NaN) =>
           sc_row.Score_Potencial = RegraPotencial(sc_in.Potencial_Financeiro,
                                                   sc_in.potencial_minimo,
                                                   sc_in.potencial_bom)
    /\ sc_pc = "confianca" =>
           (sc_row.Score_Confianca = 1 <=> sc_in.ValorCausaConfianca >= 6)
    /\ sc_pc = "confianca" => sc_row.Score_Confianca \in {0, 1}
    /\ (sc_pc = "volume" /\ sc_in.Quantidade # NaN) =>
           /\ sc_row.Score_Volume = 1 <=> sc_in.Quantidade >= 5
           /\ sc_row.Score_Volume \in {0, 1}

\* a category whose success rate lies between 0.5 and the minimum threshold
C3_Witness ==
    /\ sc_pc = "sucesso"
    /\ sc_in.Taxa_Sucesso # NaN
    /\ sc_in.Taxa_Sucesso # Inf
    /\ sc_in.Taxa_Sucesso >= 500
    /\ LtF(sc_in.Taxa_Sucesso, sc_in.taxa_sucesso_minima)
    /\ sc_row.Score_Sucesso = 1

\* C4: every total score gets exactly one four-level label: NAO VIAVEL
\* below 3, BAIXA from 3 to 4, MEDIA from 5 to 6, ALTA from 7.
C4_LabelByCutoffs ==
    sc_pc = "final" =>
        LET t == sc_row.Score_Total
            l == sc_row.Viabilidade_Detalhada
        IN  /\ t \in 0..10
            /\ l = "NAO VIAVEL" <=> t < 3
            /\ l = "BAIXA" <=> (3 <= t /\ t < 5)
            /\ l = "MEDIA" <=> (5 <= t /\ t < 7)
            /\ l = "ALTA" <=> t >= 7

\* the lowest total that is labelled ALTA
C4_Witness ==
    /\ sc_pc = "final"
    /\ sc_row.Score_Total = 7
    /\ sc_row.Viabilidade_Detalhada = "ALTA"

----------------------------------------------------------------------------
\* Properties of the TargetCreator methods (checked under SpecTarget)

\* C5: a record whose DescricaoAssunto has no row in stats_assuntos gets
\* Score_Sucesso 0, Score_Potencial 0 and Score_Volume 0, whatever the
\* thresholds are.
C5_MissingCategoryScoresZero ==
    df_com_target.set =>
        \A i \in DOMAIN df :
            df[i].DescricaoAssunto \notin Categorias(df) =>
                /\ df_com_target.rows[i].Score_Sucesso = 0
                /\ df_com_target.rows[i].Score_Potencial = 0
                /\ df_com_target.rows[i].Score_Volume = 0

\* C6: criar_variavel_target called while stats_assuntos is None fails with
\* an error raised to the caller.
C6_NoStatsRaises ==
    [][(criar_variavel_target /\ stats_assuntos.none) => ret' = "raise"]_vars

----------------------------------------------------------------------------
\* Leakage guard and the entry points that build a feature matrix.
\* A frame is modelled by its set of column names; the dtype of a column is
\* the one the SINDEC schema and criar_variavel_target give it.  The columns
\* generated per value (get_dummies, one column per UF / year / code) are
\* one name per family, e.g. "uf_*".

MaxCols == 3

FEATURES_PROIBIDAS ==
    {"Score_Valor", "Score_Sucesso", "Score_Potencial",
     "Score_Confianca", "Score_Volume", "Score_Total",
     "Viavel", "Viavel_Label", "Viabilidade_Detalhada",
     "Taxa_Sucesso", "Potencial_Financeiro", "Quantidade",
     "DescricaoAssunto", "DescricaoProblema",
     "DataArquivamento", "DataAbertura"}

NUMERIC_FEATURES ==
    {"ValorCausa", "ValorCausaConfianca", "Taxa_Sucesso", "Potencial_Financeiro",
     "Score_Valor", "Score_Sucesso", "Score_Potencial", "Score_Confianca",
     "Score_Volume", "Score_Total", "AnoCalendario"}

COLUNAS_PROBLEMATICAS == {"DataAbertura", "DataArquivamento", "NumeroCNPJ"}

\* the primary columns the feature functions read
ColunasPrimarias ==
    {"ValorCausa", "ValorCausaConfianca", "AnoCalendario", "UF", "Regiao",
     "SexoConsumidor", "FaixaEtariaConsumidor", "CodigoAssunto",
     "CodigoProblema", "NumeroCNPJ"}

Colunas == FEATURES_PROIBIDAS \cup ColunasPrimarias

\* columns of a non-numeric dtype (text, dates, categories); every other
\* column, the generated ones included, is numeric
NaoNumericas ==
    {"Viavel_Label", "Viabilidade_Detalhada", "DescricaoAssunto",
     "DescricaoProblema", "DataArquivamento", "DataAbertura", "UF", "Regiao",
     "SexoConsumidor", "FaixaEtariaConsumidor"}

\* df.select_dtypes(include=[np.number]).columns
SelectNumeric(cols) == cols \ NaoNumericas

\* df.drop(columns=remover): KeyError when a label to drop is absent
Drop(cols, remover) ==
    IF remover \subseteq cols
    THEN [erro |-> FALSE, cols |-> cols \ remover]
    ELSE [erro |-> TRUE, cols |-> cols]

\* mutation: 'Quantidade' missing from the loop over the deny-list
FeaturesRemovidasSemQuantidade(cols) ==
    {col \in FEATURES_PROIBIDAS \ {"Quantidade"} : col \in cols}

\* mutation: the loop stops at the first deny-list column it finds
FeaturesRemovidasSoPrimeira(cols) ==
    IF cols \cap FEATURES_PROIBIDAS = {} THEN {}
    ELSE {CHOOSE col \in FEATURES_PROIBIDAS : col \in cols}

\* features_removidas: the deny-list columns present in the frame
FeaturesRemovidas(cols) == {col \in FEATURES_PROIBIDAS : col \in cols}

\* mutation: the frame is copied but nothing is dropped
CriarFeaturesLimpasSemRemover(cols) == Drop(cols, {})

\* criar_features_limpas on the columns of a frame
CriarFeaturesLimpas(cols) == Drop(cols, FeaturesRemovidas(cols))

\* columns added for the values of one categorical column
PorValor(cols, col, nome, comValores) ==
    IF col \in cols /\ comValores THEN {nome} ELSE {}

criar_features_geograficas(cols, cv) ==
    cols \cup PorValor(cols, "Regiao", "regiao_*", cv)
         \cup PorValor(cols, "UF", "uf_*", cv)

criar_features_demograficas(cols) ==
    cols \cup (IF "SexoConsumidor" \in cols THEN {"sexo_M", "sexo_F"} ELSE {})
         \cup (IF "FaixaEtariaConsumidor" \in cols
               THEN {"faixa_etaria_num", "idade_jovem", "idade_adulto", "idade_senior"}
               ELSE {})

criar_features_valor(cols) ==
    cols \cup (IF "ValorCausa" \in cols
               THEN {"valor_log", "valor_baixo", "valor_medio", "valor_alto"}
                    \cup (IF "ValorCausaConfianca" \in cols
                          THEN {"valor_x_confianca"} ELSE {})
               ELSE {})

criar_features_temporais(cols, cv) ==
    cols \cup PorValor(cols, "AnoCalendario", "ano_*", cv)

criar_features_codigo(cols, cv) ==
    cols \cup PorValor(cols, "CodigoAssunto", "assunto_*", cv)

ColsRemover ==
    {"Regiao", "UF", "SexoConsumidor", "FaixaEtariaConsumidor",
     "CodigoAssunto", "CodigoProblema"}

criar_features_text_independentes(cols, cv) ==
    criar_features_codigo(
        criar_features_temporais(
            criar_features_valor(
                criar_features_demograficas(
                    criar_features_geograficas(cols, cv))), cv), cv) \ ColsRemover

\* the column sets with at most n columns
RECURSIVE ColunasAte(_)
ColunasAte(n) ==
    IF n = 0 THEN {{}}
    ELSE LET menores == ColunasAte(n - 1)
         IN  menores \cup {c \cup {col} : c \in menores, col \in Colunas}

Frames == ColunasAte(MaxCols)

\* a frame handed to the feature pipeline
InitGuard ==
    /\ ScorerIdle
    /\ ScoreIdle
    /\ BalancerIdle
    /\ g_pc = "start"
    /\ g_frame \in [cols : Frames, comValores : BOOLEAN]
    /\ g_clean = <<>>
    /\ g_X = {}
    /\ g_ret = "idle"

\* criar_features_limpas(df_balanced), on the frame and then on its own result
criar_features_limpas ==
    /\ \/ g_pc = "start"
       \/ g_pc = "strip1" /\ g_ret = "frame"
    /\ LET entrada == IF g_clean = <<>> THEN g_frame.cols ELSE g_clean[Len(g_clean)]
           df_clean == CriarFeaturesLimpas(entrada)
       IN  /\ g_clean' = IF df_clean.erro THEN g_clean
                         ELSE Append(g_clean, df_clean.cols)
           /\ g_ret' = IF df_clean.erro THEN "raise" ELSE "frame"
    /\ g_pc' = IF g_pc = "start" THEN "strip1" ELSE "strip2"
    /\ UNCHANGED <<g_frame, g_X, scorerVars, scoreVars, balancerVars>>

\* preparar_dados_limpos(df_balanced).  VarianceThreshold keeps the columns
\* whose variance exceeds the threshold, which depends on the values: any
\* non-empty selection, or ValueError when no column passes.
preparar_dados_limpos ==
    /\ g_pc = "start"
    /\ g_pc' = "limpos"
    /\ LET df_clean == CriarFeaturesLimpas(g_frame.cols)
           df_features == criar_features_text_independentes(df_clean.cols,
                                                            g_frame.comValores)
           feature_cols == SelectNumeric(df_features)
       IN  IF df_clean.erro
           THEN g_ret' = "raise" /\ g_X' = {}
           ELSE IF "Viavel" \notin g_frame.cols
           THEN g_ret' = "None" /\ g_X' = {}
           ELSE \/ g_ret' = "raise" /\ g_X' = {}
                \/ \E feature_names \in (SUBSET feature_cols) \ {{}} :
                       g_ret' = "X" /\ g_X' = feature_names
    /\ UNCHANGED <<g_frame, g_clean, scorerVars, scoreVars, balancerVars>>

\* preparar_dados_para_balanceamento(df_com_target): the X handed to DataBalancer
preparar_dados_para_balanceamento ==
    /\ g_pc = "start"
    /\ g_pc' = "balanceamento"
    /\ IF "Viavel" \notin g_frame.cols \/ "UF" \notin g_frame.cols
       THEN g_ret' = "raise" /\ g_X' = {}
       ELSE LET categorical_encoded ==
                    PorValor(g_frame.cols, "UF", "UF_*", g_frame.comValores)
                    \cup (IF "Regiao" \in g_frame.cols THEN {"Regiao_encoded"} ELSE {})
                df_clean == g_frame.cols \cup categorical_encoded
                all_features == NUMERIC_FEATURES \cup categorical_encoded
            IN  /\ g_X' = {col \in all_features : col \in df_clean}
                /\ g_ret' = "X"
    /\ UNCHANGED <<g_frame, g_clean, scorerVars, scoreVars, balancerVars>>

\* balancear_dados_viabilidade(df_com_target) with features_to_use=None, as
\* every caller invokes it: the X handed to DataBalancer
balancear_dados_viabilidade ==
    /\ g_pc = "start"
    /\ g_pc' = "balancear"
    /\ LET numeric_cols == SelectNumeric(g_frame.cols)
           features_to_use == (numeric_cols \ {"Viavel"}) \ COLUNAS_PROBLEMATICAS
       IN  IF "Viavel" \notin g_frame.cols
           THEN g_ret' = "raise" /\ g_X' = {}
           ELSE g_ret' = "X" /\ g_X' = features_to_use
    /\ UNCHANGED <<g_frame, g_clean, scorerVars, scoreVars, balancerVars>>

NextGuard ==
    \/ criar_features_limpas
    \/ preparar_dados_limpos
    \/ preparar_dados_para_balanceamento
    \/ balancear_dados_viabilidade

SpecGuard == InitGuard /\ [][NextGuard]_vars

----------------------------------------------------------------------------
\* Properties of the leakage guard (checked under SpecGuard)

\* C7: the frame returned by criar_features_limpas has no column of
\* FEATURES_PROIBIDAS, and keeps every input column that is not in it.
C7_StripRemovesExactlyDenyList ==
    (g_pc = "strip1" /\ g_ret = "frame") =>
        /\ g_clean[1] \cap FEATURES_PROIBIDAS = {}
        /\ g_frame.cols \ FEATURES_PROIBIDAS \subseteq g_clean[1]

C7_Witness ==
    /\ g_pc = "strip1"
    /\ g_ret = "frame"
    /\ Cardinality(g_frame.cols \cap FEATURES_PROIBIDAS) >= 2
    /\ g_frame.cols \ FEATURES_PROIBIDAS # {}
    /\ g_clean[1] = g_frame.cols \ FEATURES_PROIBIDAS

\* C8: stripping the result of a strip raises no error and returns the
\* same columns as the first strip.
C8_StripIsIdempotent ==
    g_pc = "strip2" =>
        /\ g_ret = "frame"
        /\ Len(g_clean) = 2
        /\ g_clean[2] = g_clean[1]

C8_Witness ==
    /\ g_pc = "strip2"
    /\ g_ret = "frame"
    /\ g_frame.cols \cap FEATURES_PROIBIDAS # {}
    /\ g_clean[1] # {}
    /\ g_clean[2] = g_clean[1]

\* C9: the feature matrix X that reaches DataBalancer through
\* balancear_dados_viabilidade or preparar_dados_para_balanceamento has no
\* column of FEATURES_PROIBIDAS.
C9_BalancerInputHasNoDenyListColumn ==
    (g_pc \in {"balanceamento", "balancear"} /\ g_ret = "X") =>
        g_X \cap FEATURES_PROIBIDAS = {}

\* the record value, its confidence and the columns computed from them
IngredientesDoValor ==
    {"ValorCausa", "ValorCausaConfianca", "valor_log", "valor_baixo",
     "valor_medio", "valor_alto", "valor_x_confianca"}

----------------------------------------------------------------------------
\* DataBalancer.  A label vector y is modelled by its class counts
\* <<count of class 0, count of class 1>>; a class whose count is 0 does not
\* occur in y.  The samplers of imblearn are modelled by the class counts
\* they produce; what depends on the geometry of X (how many rows a cleaning
\* step removes) is a choice `o` made per call.

MaxClasse == 7
MaxRemocao == 1

\* SMOTE(k_neighbors=5), the default of the other SMOTE variants too
KNeighbors == 5

Total(y) == y[1] + y[2]
Classes(y) == {i \in 1..2 : y[i] > 0}
Maioria(y) == IF y[1] >= y[2] THEN y[1] ELSE y[2]
\* min(Counter(y).values()): over the classes that occur
Minoria(y) ==
    IF y[1] = 0 THEN y[2] ELSE IF y[2] = 0 THEN y[1]
    ELSE IF y[1] <= y[2] THEN y[1] ELSE y[2]
\* the positions of the minority and majority class as imblearn picks them
\* (min / max over the counts, the first class on a tie)
ClasseMinoritaria(y) == IF y[1] <= y[2] THEN 1 ELSE 2
ClasseMajoritaria(y) == IF y[1] >= y[2] THEN 1 ELSE 2

Ok(dist) == [erro |-> FALSE, dist |-> dist]
Erro == [erro |-> TRUE, dist |-> <<0, 0>>]

\* every class that occurs gets n rows
Igualar(y, n) == [i \in 1..2 |-> IF y[i] > 0 THEN n ELSE 0]

\* _random_oversample: max() of an empty Counter raises ValueError
RandomOversample(y) ==
    IF Classes(y) = {} THEN Erro ELSE Ok(Igualar(y, Maioria(y)))

\* an imblearn sampler refuses a target with fewer than two classes
UmaClasse(y) == Cardinality(Classes(y)) < 2

\* RandomUnderSampler(sampling_strategy=num/den): the majority class is cut
\* to int(n_minority / ratio) rows; ValueError when that exceeds what it has
UnderSampleRatio(y, num, den) ==
    IF UmaClasse(y) THEN Erro
    ELSE LET alvo == (den * Minoria(y)) \div num
             maj == ClasseMajoritaria(y)
         IN  IF alvo > y[maj] THEN Erro
             ELSE Ok([i \in 1..2 |-> IF i = maj THEN alvo ELSE y[i]])

\* RandomUnderSampler(): every class is cut to the minority count
RandomUndersample(y) ==
    IF UmaClasse(y) THEN Erro ELSE Ok(Igualar(y, Minoria(y)))

\* SMOTE(sampling_strategy=num/den): int(n_majority * ratio - n_minority)
\* rows are generated for the minority class; ValueError when that is not
\* positive, and when the class has fewer than k_neighbors + 1 rows
SmoteRatio(y, num, den) ==
    IF UmaClasse(y) THEN Erro
    ELSE LET alvo == (num * Maioria(y)) \div den
             min == ClasseMinoritaria(y)
         IN  IF alvo <= y[min] THEN Erro
             ELSE IF y[min] <= KNeighbors THEN Erro
             ELSE Ok([i \in 1..2 |-> IF i = min THEN alvo ELSE y[i]])

\* _smote_balance: SMOTE() brings the minority up to the majority; nothing
\* is generated, and no neighbour is looked up, when the classes are level
SmoteBalance(y) ==
    IF UmaClasse(y) THEN Erro
    ELSE IF Minoria(y) = Maioria(y) THEN Ok(y)
    ELSE IF Minoria(y) <= KNeighbors THEN Erro
    ELSE Ok(Igualar(y, Maioria(y)))

\* a cleaning step (Tomek links, ENN) removes o[i] rows of class i
Limpar(r, o) ==
    IF r.erro THEN r
    ELSE Ok([i \in 1..2 |-> IF r.dist[i] > o[i] THEN r.dist[i] - o[i] ELSE 0])

\* _borderline_smote: BorderlineSMOTE() looks up m_neighbors = 10 neighbours
\* in the whole of X; nothing is generated when no minority row is in danger
BorderlineSmote(y, o) ==
    IF SmoteBalance(y).erro THEN Erro
    ELSE IF Minoria(y) = Maioria(y) THEN Ok(y)
    ELSE IF Total(y) <= 2 * KNeighbors THEN Erro
    ELSE IF o[1] > 0 THEN Ok(y) ELSE SmoteBalance(y)

\* _adasyn_balance: ADASYN() looks up its neighbours in the whole of X; the
\* number of generated rows follows the density of the neighbourhoods;
\* RuntimeError when no neighbour is of the majority class
AdasynBalance(y, o) ==
    IF UmaClasse(y) THEN Erro
    ELSE IF Minoria(y) = Maioria(y) THEN Ok(y)
    ELSE IF Total(y) <= KNeighbors \/ o[2] > 0 THEN Erro
    ELSE Ok([i \in 1..2 |-> IF i = ClasseMinoritaria(y) /\ y[i] < Maioria(y) - o[1]
                            THEN Maioria(y) - o[1] ELSE y[i]])

SmoteTomek(y, o) == Limpar(SmoteBalance(y), o)
SmoteEnn(y, o) == Limpar(SmoteBalance(y), o)

\* _hybrid_custom: SMOTE(sampling_strategy=0.7), then
\* RandomUnderSampler(sampling_strategy=0.8)
HybridCustom(y) ==
    LET smote == SmoteRatio(y, 7, 10)
    IN  IF smote.erro THEN Erro ELSE UnderSampleRatio(smote.dist, 8, 10)

\* available_strategies, in the order of the dict literal
AvailableStrategies ==
    <<"random_oversample", "random_undersample", "smote", "borderline_smote",
      "adasyn", "smote_tomek", "smote_enn", "hybrid_custom">>

Range(f) == {f[i] : i \in DOMAIN f}

\* available_strategies[strategy_name](X, y)
RunStrategy(nome, y, o) ==
    CASE nome = "random_oversample" -> RandomOversample(y)
      [] nome = "random_undersample" -> RandomUndersample(y)
      [] nome = "smote" -> SmoteBalance(y)
      [] nome = "borderline_smote" -> BorderlineSmote(y, o)
      [] nome = "adasyn" -> AdasynBalance(y, o)
      [] nome = "smote_tomek" -> SmoteTomek(y, o)
      [] nome = "smote_enn" -> SmoteEnn(y, o)
      [] OTHER -> HybridCustom(y)

\* a Python dict as the sequence of its items in insertion order
Keys(d) == {d[i].nome : i \in DOMAIN d}
Get(d, k) == (CHOOSE i \in DOMAIN d : d[i].nome = k)
DictSet(d, k, v) ==
    IF k \in Keys(d)
    THEN [i \in DOMAIN d |-> IF d[i].nome = k THEN [nome |-> k, valor |-> v] ELSE d[i]]
    ELSE Append(d, [nome |-> k, valor |-> v])

\* the entry create_balanced_datasets stores for a strategy that ran: X by
\* its number of rows, y by its class counts
Entrada(y, dist) ==
    [X |-> Total(dist), y |-> dist, original_shape |-> Total(y),
     new_shape |-> Total(dist), distribution |-> dist]

\* strategies_to_run; the argument is 'all', a list of names, or one name
StrategiesToRun(strategies) ==
    IF strategies.tipo = "all" THEN AvailableStrategies
    ELSE IF strategies.tipo = "list"
    THEN SelectSeq(strategies.nomes, LAMBDA s : s \in Range(AvailableStrategies))
    ELSE IF strategies.nome \in Range(AvailableStrategies)
    THEN <<strategies.nome>> ELSE <<>>

RECURSIVE ExecutarEstrategias(_, _, _, _)
RECURSIVE AposErro(_, _, _, _)

\* mutation: the first strategy that raises ends the loop
AposErroInterrompe(resto, y, o, acc) == acc

\* except Exception: continue
AposErro(resto, y, o, acc) == ExecutarEstrategias(resto, y, o, acc)

\* for strategy_name in strategies_to_run: try ... except
ExecutarEstrategias(nomes, y, o, acc) ==
    IF nomes = <<>> THEN acc
    ELSE LET r == RunStrategy(Head(nomes), y, o)
         IN  IF r.erro THEN AposErro(Tail(nomes), y, o, acc)
             ELSE ExecutarEstrategias(Tail(nomes), y, o,
                                      DictSet(acc, Head(nomes), Entrada(y, r.dist)))

MaxPedidos == 2

\* target_ratio=0.4, as a fraction
TargetRatioDefault == [num |-> 4, den |-> 10]

\* the names a caller asks for
NomesPedidos == {"random_oversample", "smote", "desconhecida"}

Pedidos ==
    {[tipo |-> "all"]}
    \cup {[tipo |-> "str", nome |-> n] : n \in NomesPedidos}
    \cup {[tipo |-> "list", nomes |-> l] :
             l \in {m \in UNION {[1..k -> NomesPedidos] : k \in 0..MaxPedidos} :
                       \A i, j \in DOMAIN m : m[i] = m[j] => i = j}}

Oraculos == [1..2 -> 0..MaxRemocao]

\* the datasets of a balancer driven through its methods: no rows, one
\* class only, a minority too small for k_neighbors and level classes, where
\* the cleaning steps remove nothing, and a minority one row short of the
\* majority, where they remove the most they can
DadosLote ==
    [y : {<<0, 0>>, <<0, MaxClasse>>, <<MaxClasse, 1>>,
          <<MaxClasse, MaxClasse>>},
     o : {<<0, 0>>},
     target_ratio : {TargetRatioDefault}]
    \cup [y : {<<MaxClasse, MaxClasse - 1>>},
          o : {<<MaxRemocao, MaxRemocao>>},
          target_ratio : {TargetRatioDefault}]

RANDOM_STATE == 42

\* the seeds callers construct DataBalancer with
Sementes == {RANDOM_STATE}

\* check_random_state(seed): a generator seeded with an integer starts at
\* the first draw of that seed's stream
Gerador(semente) == [semente |-> semente, posicao |-> 0]

\* mutation: the samplers share one generator, which the draws advance
AposSorteioCompartilhado(rs) ==
    IF rs.posicao < 1 THEN [rs EXCEPT !.posicao = @ + 1] ELSE rs

\* self.random_state after a sampler built with random_state=self.random_state
\* has drawn: the integer seed is copied into a private generator, the
\* attribute is not touched
AposSorteio(rs) == rs

\* DataBalancer(random_state) and the dataset its caller holds
InitBalancer ==
    /\ ScorerIdle
    /\ ScoreIdle
    /\ GuardIdle
    /\ balancing_strategies = <<>>
    /\ results_comparison = <<>>
    /\ b_dados \in DadosLote
    /\ b_call = [op |-> "__init__"]
    /\ b_ret = [tipo |-> "return"]
    /\ random_state \in {Gerador(semente) : semente \in Sementes}
    /\ b_sorteio = <<>>

outrosVars == <<scorerVars, scoreVars, guardVars>>

\* create_balanced_datasets(X, y, strategies)
create_balanced_datasets ==
    /\ b_call.op # "idle"
    /\ \E strategies \in Pedidos :
          LET balanced_datasets ==
                  ExecutarEstrategias(StrategiesToRun(strategies),
                                      b_dados.y, b_dados.o, <<>>)
          IN  /\ balancing_strategies' = balanced_datasets
              /\ b_call' = [op |-> "create_balanced_datasets", strategies |-> strategies]
              /\ b_ret' = [tipo |-> "return", valor |-> balanced_datasets]
              /\ IF StrategiesToRun(strategies) = <<>>
                 THEN b_sorteio' = <<>> /\ UNCHANGED random_state
                 ELSE b_sorteio' = random_state
                      /\ random_state' = AposSorteio(random_state)
    /\ UNCHANGED <<results_comparison, b_dados, outrosVars>>


MaxAvaliadas == 2
MaxMetrica == 1

\* the entries of results[strategy_name] a caller can select by; the values
\* depend on the fitted model and are any of 0..MaxMetrica
Metricas == [macro_f1 : 0..MaxMetrica, auc_score : 0..MaxMetrica]
NomesMetricas == {"macro_f1", "auc_score"}
Metrica(m, metric) == IF metric = "macro_f1" THEN m.macro_f1 ELSE m.auc_score

\* train_test_split(stratify=y_balanced) needs two rows of every class, and
\* predict_proba(...)[:, 1] and report['1'] need both classes
AvaliacaoFalha(data) == data.y[1] < 2 \/ data.y[2] < 2

\* mutation: results is the attribute itself, so the entries written before
\* the failing strategy stay
evaluate_strategies_parcial ==
    /\ b_call.op # "idle"
    /\ b_call' = [op |-> "evaluate_strategies"]
    /\ LET falhas == {i \in DOMAIN balancing_strategies :
                         AvaliacaoFalha(balancing_strategies[i].valor)}
           n == IF falhas = {} THEN Len(balancing_strategies)
                ELSE (CHOOSE i \in falhas : \A j \in falhas : i <= j) - 1
       IN  /\ n <= MaxAvaliadas
           /\ \E m \in [1..n -> Metricas] :
                 LET results == [i \in 1..n |->
                                   [nome |-> balancing_strategies[i].nome,
                                    valor |-> m[i]]]
                 IN  /\ results_comparison' = results
                     /\ b_ret' = IF falhas = {}
                                 THEN [tipo |-> "return", valor |-> results]
                                 ELSE [tipo |-> "raise"]
    /\ random_state' = IF balancing_strategies = <<>> THEN random_state
                       ELSE AposSorteio(random_state)
    /\ UNCHANGED <<balancing_strategies, b_dados, b_sorteio, outrosVars>>

\* evaluate_strategies(); the metrics of up to MaxAvaliadas balanced datasets
\* are enumerated, a batch with a dataset that cannot be evaluated has any size
evaluate_strategies ==
    /\ b_call.op # "idle"
    /\ b_call' = [op |-> "evaluate_strategies"]
    /\ IF \E i \in DOMAIN balancing_strategies :
              AvaliacaoFalha(balancing_strategies[i].valor)
       THEN /\ b_ret' = [tipo |-> "raise"]
            /\ UNCHANGED results_comparison
       ELSE /\ Len(balancing_strategies) <= MaxAvaliadas
            /\ \E m \in [DOMAIN balancing_strategies -> Metricas] :
                 LET results == [i \in DOMAIN balancing_strategies |->
                                   [nome |-> balancing_strategies[i].nome,
                                    valor |-> m[i]]]
                 IN  /\ results_comparison' = results
                     /\ b_ret' = [tipo |-> "return", valor |-> results]
    /\ random_state' = IF balancing_strategies = <<>> THEN random_state
                       ELSE AposSorteio(random_state)
    /\ UNCHANGED <<balancing_strategies, b_dados, b_sorteio, outrosVars>>

\* mutation: the last of the maximal items
MelhorUltima(d, metric) ==
    CHOOSE i \in DOMAIN d :
        /\ \A j \in DOMAIN d : Metrica(d[j].valor, metric) <= Metrica(d[i].valor, metric)
        /\ \A j \in DOMAIN d :
              j > i => Metrica(d[j].valor, metric) < Metrica(d[i].valor, metric)

\* max(self.results_comparison.items(), key=...): the first of the maximal items
Melhor(d, metric) ==
    CHOOSE i \in DOMAIN d :
        /\ \A j \in DOMAIN d : Metrica(d[j].valor, metric) <= Metrica(d[i].valor, metric)
        /\ \A j \in DOMAIN d :
              j < i => Metrica(d[j].valor, metric) < Metrica(d[i].valor, metric)

\* get_best_strategy(metric)
get_best_strategy ==
    /\ b_call.op # "idle"
    /\ \E metric \in NomesMetricas :
          /\ b_call' = [op |-> "get_best_strategy", metric |-> metric]
          /\ IF results_comparison = <<>>
             THEN b_ret' = [tipo |-> "None"]
             ELSE LET strategy_name ==
                          results_comparison[Melhor(results_comparison, metric)].nome
                  IN  IF strategy_name \notin Keys(balancing_strategies)
                      THEN b_ret' = [tipo |-> "raise"]
                      ELSE b_ret' = [tipo |-> "return",
                                     strategy_name |-> strategy_name,
                                     data |-> balancing_strategies[
                                                Get(balancing_strategies, strategy_name)].valor]
    /\ UNCHANGED <<balancing_strategies, results_comparison, b_dados,
                   random_state, b_sorteio, outrosVars>>


\* mutation: the limits belong to the lower level
NivelLimiteInclusivo(maj, min) ==
    IF maj <= 2 * min THEN "BAIXO"
    ELSE IF maj <= 5 * min THEN "MODERADO"
    ELSE IF maj <= 10 * min THEN "ALTO"
    ELSE "EXTREMO"

\* the level of imbalance_ratio = maj / min
Nivel(maj, min) ==
    IF maj < 2 * min THEN "BAIXO"
    ELSE IF maj < 5 * min THEN "MODERADO"
    ELSE IF maj < 10 * min THEN "ALTO"
    ELSE "EXTREMO"

\* analyze_imbalance(X, y): min() of an empty Counter raises ValueError
analyze_imbalance ==
    /\ b_call.op # "idle"
    /\ b_call' = [op |-> "analyze_imbalance"]
    /\ IF Classes(b_dados.y) = {}
       THEN b_ret' = [tipo |-> "raise"]
       ELSE LET minority_class == Minoria(b_dados.y)
                majority_class == Maioria(b_dados.y)
            IN  b_ret' = [tipo |-> "return",
                          class_counts |-> b_dados.y,
                          imbalance_ratio |-> [num |-> majority_class,
                                               den |-> minority_class],
                          level |-> Nivel(majority_class, minority_class),
                          minority_class |-> minority_class,
                          majority_class |-> majority_class]
    /\ UNCHANGED <<balancing_strategies, results_comparison, b_dados,
                   random_state, b_sorteio, outrosVars>>

Presets == {"auto", "conservative", "moderate", "aggressive"}

\* the target_ratio values callers pass: the default and one half
Razoes == {TargetRatioDefault, [num |-> 1, den |-> 2]}

\* mutation: the limits belong to the lighter preset
EscolhaAutoLimiteInclusivo(y) ==
    IF Maioria(y) <= 3 * Minoria(y) THEN "conservative"
    ELSE IF Maioria(y) <= 7 * Minoria(y) THEN "moderate"
    ELSE "aggressive"

\* strategy == 'auto', for a y with a class in it
EscolhaAuto(y) ==
    IF Maioria(y) < 3 * Minoria(y) THEN "conservative"
    ELSE IF Maioria(y) < 7 * Minoria(y) THEN "moderate"
    ELSE "aggressive"

\* the three preset branches
AplicarPreset(strategy, dados, target_ratio) ==
    IF strategy = "conservative" THEN UnderSampleRatio(dados.y, 7, 10)
    ELSE IF strategy = "moderate"
    THEN SmoteRatio(dados.y, target_ratio.num, target_ratio.den)
    ELSE SmoteEnn(dados.y, dados.o)

\* create_final_balanced_dataset(X, y, strategy, target_ratio)
create_final_balanced_dataset ==
    /\ b_call.op # "idle"
    /\ \E strategy \in Presets \cup NomesPedidos :
          /\ b_call' = [op |-> "create_final_balanced_dataset", strategy |-> strategy]
          /\ IF strategy = "auto" /\ Classes(b_dados.y) = {}
             THEN /\ b_ret' = [tipo |-> "raise"]
                  /\ b_sorteio' = <<>>
                  /\ UNCHANGED random_state
             ELSE LET escolhida == IF strategy = "auto" THEN EscolhaAuto(b_dados.y)
                                   ELSE strategy
                  IN  IF escolhida \in Presets
                      THEN LET r == AplicarPreset(escolhida, b_dados, b_dados.target_ratio)
                           IN  /\ IF r.erro THEN b_ret' = [tipo |-> "raise"]
                                  ELSE b_ret' = [tipo |-> "return",
                                                 strategy |-> escolhida, y |-> r.dist]
                               /\ b_sorteio' = random_state
                               /\ random_state' = AposSorteio(random_state)
                      ELSE /\ IF escolhida \in Keys(balancing_strategies)
                              THEN b_ret' = [tipo |-> "return", strategy |-> escolhida,
                                             y |-> balancing_strategies[
                                                     Get(balancing_strategies,
                                                         escolhida)].valor.y]
                              ELSE b_ret' = [tipo |-> "None"]
                           /\ b_sorteio' = <<>>
                           /\ UNCHANGED random_state
    /\ UNCHANGED <<balancing_strategies, results_comparison, b_dados, outrosVars>>

NextBalancer ==
    \/ analyze_imbalance
    \/ create_balanced_datasets
    \/ evaluate_strategies
    \/ get_best_strategy
    \/ create_final_balanced_dataset

SpecBalancer == InitBalancer /\ [][NextBalancer]_vars

MaxClassePreset == 42

\* the scenario of 1000 records: 850 not viable, 150 viable
CenarioExemplo == <<850, 150>>

DadosPreset ==
    [y : {<<a, b>> : a \in 0..MaxClassePreset, b \in 0..MaxClassePreset}
         \cup {CenarioExemplo},
     o : Oraculos,
     target_ratio : Razoes]

\* a fresh balancer whose caller analyses a dataset and asks for a preset
InitPreset ==
    /\ ScorerIdle
    /\ ScoreIdle
    /\ GuardIdle
    /\ balancing_strategies = <<>>
    /\ results_comparison = <<>>
    /\ b_dados \in DadosPreset
    /\ b_call = [op |-> "__init__"]
    /\ b_ret = [tipo |-> "return"]
    /\ random_state \in {Gerador(semente) : semente \in Sementes}
    /\ b_sorteio = <<>>

NextPreset ==
    \/ analyze_imbalance
    \/ create_final_balanced_dataset

SpecPreset == InitPreset /\ [][NextPreset]_vars

\* ---------------------------------------------------------------------
\* Claims on DataBalancer
\* ---------------------------------------------------------------------

\* a call of create_final_balanced_dataset whose strategy is neither a preset
\* nor a key of balancing_strategies
NomeDesconhecido ==
    /\ b_call.op = "create_final_balanced_dataset"
    /\ b_call.strategy \notin Presets
    /\ b_call.strategy \notin Keys(balancing_strategies)

\* C11: create_final_balanced_dataset called with a strategy name that is
\* neither a preset nor a previously generated strategy raises a
\* strategy-not-found error to its caller (and returns no result).
C11_UnknownNameRaises ==
    NomeDesconhecido => b_ret.tipo = "raise"

\* the names a create_balanced_datasets call asked for
NomesDoPedido(strategies) ==
    IF strategies.tipo = "all" THEN Range(AvailableStrategies)
    ELSE IF strategies.tipo = "list" THEN Range(strategies.nomes)
    ELSE {strategies.nome}

\* the requested names that are known and whose sampler does not raise on
\* the caller's dataset
NomesBemSucedidos(strategies) ==
    {n \in NomesDoPedido(strategies) \cap Range(AvailableStrategies) :
        ~RunStrategy(n, b_dados.y, b_dados.o).erro}

\* C12: after create_balanced_datasets, the returned mapping is what
\* balancing_strategies holds, its keys are exactly the requested known
\* strategies that did not raise (one entry each), and every entry carries
\* the balanced X and y, the original shape, the new shape and the
\* distribution of that strategy's output.
C12_ExactlyTheSucceededStrategies ==
    b_call.op = "create_balanced_datasets" =>
        /\ b_ret.tipo = "return"
        /\ balancing_strategies = b_ret.valor
        /\ Keys(b_ret.valor) = NomesBemSucedidos(b_call.strategies)
        /\ Len(b_ret.valor) = Cardinality(NomesBemSucedidos(b_call.strategies))
        /\ \A i \in DOMAIN b_ret.valor :
              LET e == b_ret.valor[i].valor
                  r == RunStrategy(b_ret.valor[i].nome, b_dados.y, b_dados.o)
              IN  /\ DOMAIN e = {"X", "y", "original_shape", "new_shape", "distribution"}
                  /\ e.y = r.dist
                  /\ e.X = Total(r.dist)
                  /\ e.original_shape = Total(b_dados.y)
                  /\ e.new_shape = Total(r.dist)
                  /\ e.distribution = r.dist

\* a call whose list names a strategy that raised before one that ran
C12_Witness ==
    /\ b_call.op = "create_balanced_datasets"
    /\ b_call.strategies.tipo = "list"
    /\ \E i, j \in DOMAIN b_call.strategies.nomes :
          /\ i < j
          /\ b_call.strategies.nomes[i] \in Range(AvailableStrategies)
          /\ RunStrategy(b_call.strategies.nomes[i], b_dados.y, b_dados.o).erro
          /\ b_call.strategies.nomes[j] \in Keys(balancing_strategies)

\* C13: when none of the requested strategies succeeds,
\* create_balanced_datasets does not hand its caller a plain empty mapping:
\* it reports an explicit empty-result condition.
C13_NoSilentEmptyBatch ==
    (b_call.op = "create_balanced_datasets"
        /\ NomesBemSucedidos(b_call.strategies) = {})
    => ~(b_ret.tipo = "return" /\ b_ret.valor = <<>>)

\* C14: evaluate_strategies called while balancing_strategies is empty
\* fails with a precondition error instead of returning an empty result.
C14_EvaluateWithoutDatasetsRaises ==
    (b_call.op = "evaluate_strategies" /\ balancing_strategies = <<>>)
    => b_ret.tipo = "raise"

\* the strategies recorded by the last evaluation are the ones
\* balancing_strategies holds, in the same order
AvaliacaoAtual ==
    /\ results_comparison # <<>>
    /\ Len(results_comparison) = Len(balancing_strategies)
    /\ \A i \in DOMAIN results_comparison :
          results_comparison[i].nome = balancing_strategies[i].nome

\* C15: after evaluate_strategies has recorded the metrics of the current
\* balanced datasets, get_best_strategy(metric) returns a strategy whose
\* value of the requested metric is the maximum of all evaluated strategies,
\* the first inserted one among those that share the maximum, together with
\* that strategy's entry of balancing_strategies.
C15_BestIsFirstMaximum ==
    (b_call.op = "get_best_strategy" /\ AvaliacaoAtual) =>
        /\ b_ret.tipo = "return"
        /\ \E i \in DOMAIN results_comparison :
              /\ results_comparison[i].nome = b_ret.strategy_name
              /\ \A j \in DOMAIN results_comparison :
                    /\ Metrica(results_comparison[j].valor, b_call.metric)
                          <= Metrica(results_comparison[i].valor, b_call.metric)
                    /\ j < i =>
                          Metrica(results_comparison[j].valor, b_call.metric)
                             < Metrica(results_comparison[i].valor, b_call.metric)
              /\ b_ret.data = balancing_strategies[i].valor

\* two evaluated strategies share the maximum of the requested metric and
\* differ on the other metric
C15_Witness ==
    /\ b_call.op = "get_best_strategy"
    /\ AvaliacaoAtual
    /\ b_ret.tipo = "return"
    /\ Len(results_comparison) = 2
    /\ Metrica(results_comparison[1].valor, b_call.metric)
          = Metrica(results_comparison[2].valor, b_call.metric)
    /\ results_comparison[1].valor # results_comparison[2].valor
    /\ b_ret.strategy_name = results_comparison[1].nome

\* C16: on a label vector with at least one member, analyze_imbalance
\* returns imbalance_ratio = majority count / minority count and the level
\* BAIXO when the ratio is below 2, MODERADO from 2 to below 5, ALTO from 5
\* to below 10, EXTREMO from 10 on; the call changes neither the balancer's
\* dictionaries nor the caller's dataset.
C16_AnalyzeLevelsAndPurity ==
    [][b_call'.op = "analyze_imbalance" =>
          /\ balancing_strategies' = balancing_strategies
          /\ results_comparison' = results_comparison
          /\ b_dados' = b_dados
          /\ Total(b_dados.y) >= 1 =>
                LET maj == IF b_dados.y[1] >= b_dados.y[2]
                           THEN b_dados.y[1] ELSE b_dados.y[2]
                    menor == IF b_dados.y[1] <= b_dados.y[2]
                             THEN b_dados.y[1] ELSE b_dados.y[2]
                    min == IF menor = 0 THEN maj ELSE menor
                IN  /\ b_ret'.tipo = "return"
                    /\ b_ret'.imbalance_ratio = [num |-> maj, den |-> min]
                    /\ (maj < 2 * min) = (b_ret'.level = "BAIXO")
                    /\ (2 * min <= maj /\ maj < 5 * min) = (b_ret'.level = "MODERADO")
                    /\ (5 * min <= maj /\ maj < 10 * min) = (b_ret'.level = "ALTO")
                    /\ (10 * min <= maj) = (b_ret'.level = "EXTREMO")]_vars

\* analyze_imbalance has classified a dataset whose ratio is exactly 10
C16_Witness ==
    /\ b_call.op = "analyze_imbalance"
    /\ b_ret.tipo = "return"
    /\ b_ret.majority_class = 10 * b_ret.minority_class
    /\ b_ret.level = "EXTREMO"

\* C17: create_final_balanced_dataset with strategy 'auto' applies the
\* conservative preset when majority/minority is below 3, the moderate preset
\* from 3 to below 7 and the aggressive preset from 7 on, and ends as the
\* call of that preset by name ends on the same dataset: with the same
\* balanced dataset, or by raising when the preset raises.
C17_AutoAppliesPresetByRatio ==
    (b_call.op = "create_final_balanced_dataset"
        /\ b_call.strategy = "auto"
        /\ Total(b_dados.y) >= 1) =>
        LET maj == Maioria(b_dados.y)
            min == Minoria(b_dados.y)
            preset == IF maj < 3 * min THEN "conservative"
                      ELSE IF maj < 7 * min THEN "moderate"
                      ELSE "aggressive"
            r == AplicarPreset(preset, b_dados, b_dados.target_ratio)
        IN  IF r.erro THEN b_ret.tipo = "raise"
            ELSE b_ret = [tipo |-> "return", strategy |-> preset, y |-> r.dist]

\* 'auto' on a dataset whose ratio is exactly 3 has applied the moderate
\* preset, which generated rows
C17_Witness ==
    /\ b_call.op = "create_final_balanced_dataset"
    /\ b_call.strategy = "auto"
    /\ Maioria(b_dados.y) = 3 * Minoria(b_dados.y)
    /\ b_ret.tipo = "return"
    /\ b_ret.strategy = "moderate"
    /\ Total(b_ret.y) > Total(b_dados.y)

\* C19: whenever the conservative preset of create_final_balanced_dataset
\* returns, the majority class of the returned dataset is 70% of its rows,
\* to within one row.
C19_ConservativeMajorityIs70Percent ==
    (b_call.op = "create_final_balanced_dataset"
        /\ b_call.strategy = "conservative"
        /\ b_ret.tipo = "return") =>
        LET desvio == 10 * Maioria(b_ret.y) - 7 * Total(b_ret.y)
        IN  -10 <= desvio /\ desvio <= 10

\* C20: the moderate preset with target_ratio 0.4 on 850 not viable and 150
\* viable records returns a dataset in which the viable class is 0.4 of the
\* rows, to within 0.05, and which has at least as many rows as the input.
C20_ModerateReachesTargetShare ==
    (b_call.op = "create_final_balanced_dataset"
        /\ b_call.strategy = "moderate"
        /\ b_dados.y = CenarioExemplo
        /\ b_dados.target_ratio = TargetRatioDefault) =>
        /\ b_ret.tipo = "return"
        /\ LET desvio == 100 * b_ret.y[2] - 40 * Total(b_ret.y)
           IN  -5 * Total(b_ret.y) <= desvio /\ desvio <= 5 * Total(b_ret.y)
        /\ Total(b_ret.y) >= Total(b_dados.y)

\* ---------------------------------------------------------------------
\* _random_oversample on the rows of a dataset
\* ---------------------------------------------------------------------

MaxLinhas == 4

\* the classes of the target Viavel
Rotulos == {0, 1}

\* the label vectors y of up to MaxLinhas rows; row i of X is identified by
\* its position i
VetoresY == UNION {[1..n -> Rotulos] : n \in 0..MaxLinhas}

RECURSIVE ChavesCounter(_, _)

\* Counter(y).keys(): the classes in the order of their first occurrence
ChavesCounter(y, vistas) ==
    IF y = <<>> THEN vistas
    ELSE ChavesCounter(Tail(y),
                       IF Head(y) \in Range(vistas) THEN vistas
                       ELSE Append(vistas, Head(y)))

\* the rows selected by class_mask = (y == class_val)
LinhasDaClasse(y, class_val) == {i \in DOMAIN y : y[i] = class_val}

\* max(class_counts.values())
MaxCount(y) ==
    LET contagens == {Cardinality(LinhasDaClasse(y, c)) : c \in Range(y)}
    IN  CHOOSE m \in contagens : \A n \in contagens : n <= m

\* mutation: n_samples is left out, so each class keeps its number of rows
ResampleSemNSamples(linhas, n_samples) == [1..Cardinality(linhas) -> linhas]

\* resample(X_class, replace=True, n_samples=max_count, random_state=...):
\* the draws the generator can make, n_samples rows of X_class with
\* replacement
Resample(linhas, n_samples) == [1..n_samples -> linhas]

\* np.full(max_count, class_val), for the rows drawn
Rotular(linhas, class_val) == [k \in DOMAIN linhas |-> class_val]

\* _random_oversample(X, y): max() of an empty Counter raises ValueError;
\* the result is the stack of the resampled classes, X as the positions of
\* the rows copied. The draws are fixed by random_state and the dataset, so
\* a dataset has one result: the call is taken once
_random_oversample ==
    /\ b_call.op = "__init__"
    /\ b_call' = [op |-> "_random_oversample"]
    /\ IF b_dados.y = <<>>
       THEN b_ret' = [tipo |-> "raise"]
       ELSE LET chaves == ChavesCounter(b_dados.y, <<>>)
                max_count == MaxCount(b_dados.y)
            IN  \E r1 \in Resample(LinhasDaClasse(b_dados.y, chaves[1]), max_count) :
                  IF Len(chaves) = 1
                  THEN b_ret' = [tipo |-> "return", X |-> r1,
                                 y |-> Rotular(r1, chaves[1])]
                  ELSE \E r2 \in Resample(LinhasDaClasse(b_dados.y, chaves[2]),
                                          max_count) :
                         b_ret' = [tipo |-> "return", X |-> r1 \o r2,
                                   y |-> Rotular(r1, chaves[1])
                                            \o Rotular(r2, chaves[2])]
    /\ b_sorteio' = random_state
    /\ random_state' = AposSorteio(random_state)
    /\ UNCHANGED <<balancing_strategies, results_comparison, b_dados, outrosVars>>

\* a fresh balancer and the dataset (X, y) of its caller, row by row
InitOversample ==
    /\ ScorerIdle
    /\ ScoreIdle
    /\ GuardIdle
    /\ balancing_strategies = <<>>
    /\ results_comparison = <<>>
    /\ b_dados \in [y : VetoresY]
    /\ b_call = [op |-> "__init__"]
    /\ b_ret = [tipo |-> "return"]
    /\ random_state \in {Gerador(semente) : semente \in Sementes}
    /\ b_sorteio = <<>>

NextOversample == _random_oversample

SpecOversample == InitOversample /\ [][NextOversample]_vars

\* the class counts of a label vector, as the strategies above take them
Contagens(y) ==
    <<Cardinality(LinhasDaClasse(y, 0)), Cardinality(LinhasDaClasse(y, 1))>>

\* C18: on an input with at least one row of each class, random_oversample
\* returns a dataset in which every class has as many rows as the largest
\* class of the input, and every returned row is a copy of an input row
\* that has the label the returned row carries.
C18_OversampleLevelsByCopying ==
    (b_call.op = "_random_oversample" /\ Range(b_dados.y) = Rotulos) =>
        /\ b_ret.tipo = "return"
        /\ Len(b_ret.X) = Len(b_ret.y)
        /\ \A c \in Rotulos :
              Cardinality(LinhasDaClasse(b_ret.y, c))
                 = Maioria(Contagens(b_dados.y))
        /\ \A k \in DOMAIN b_ret.X :
              /\ b_ret.X[k] \in DOMAIN b_dados.y
              /\ b_dados.y[b_ret.X[k]] = b_ret.y[k]
        /\ Contagens(b_ret.y) = RandomOversample(Contagens(b_dados.y)).dist

\* the smaller class has been brought up to the larger one, with one of its
\* rows copied more than once
C18_Witness ==
    /\ b_call.op = "_random_oversample"
    /\ b_ret.tipo = "return"
    /\ Range(b_dados.y) = Rotulos
    /\ Contagens(b_dados.y)[1] # Contagens(b_dados.y)[2]
    /\ Len(b_ret.y) = 2 * Maioria(Contagens(b_dados.y))
    /\ \E j, k \in DOMAIN b_ret.X : j # k /\ b_ret.X[j] = b_ret.X[k]

\* the last call ran samplers on the caller's dataset: a batch of strategies
\* or a preset
ChamadaComSorteio ==
    \/ /\ b_call.op = "create_balanced_datasets"
       /\ StrategiesToRun(b_call.strategies) # <<>>
    \/ /\ b_call.op = "create_final_balanced_dataset"
       /\ b_call.strategy \in Presets
       /\ (b_call.strategy = "auto" => Total(b_dados.y) >= 1)

----------------------------------------------------------------------------
\* The columns the target stage needs (src/utils.py, src/target_creation.py)

\* validacoes: the required columns of each stage
validacoes ==
    [preprocessamento |-> {"Atendida", "ValorCausa"},
     analise_exploratoria |->
         {"DescricaoAssunto", "DescricaoProblema", "ValorCausa", "Atendida"},
     criacao_target |->
         {"DescricaoAssunto", "DescricaoProblema", "ValorCausa", "Atendida",
          "ValorCausaConfianca"},
     feature_engineering |-> {"DescricaoAssunto", "DescricaoProblema", "Viavel"},
     balanceamento |-> {"Viavel"}]

\* verificar_colunas_necessarias(df, colunas_necessarias): prints and
\* returns a boolean
verificar_colunas_necessarias(cols, colunas_necessarias) ==
    colunas_necessarias \subseteq cols

\* calcular_estatisticas_historicas on a frame with the columns cols: the
\* first access to a missing column raises pandas' KeyError, from the debug
\* print, from groupby or from agg (which names the missing keys of its dict)
EstatisticasPorColunas(cols) ==
    LET KeyError(em, colunas) ==
            [tipo |-> "raise", erro |-> "KeyError", em |-> em, colunas |-> colunas]
    IN  IF "Atendida" \notin cols THEN KeyError("print", {"Atendida"})
        ELSE IF "DescricaoAssunto" \notin cols
        THEN KeyError("groupby", {"DescricaoAssunto"})
        ELSE IF ~({"ValorCausa", "ValorCausaConfianca"} \subseteq cols)
        THEN KeyError("agg", {"ValorCausa", "ValorCausaConfianca"} \ cols)
        ELSE IF "DescricaoProblema" \notin cols
        THEN KeyError("groupby", {"DescricaoProblema"})
        ELSE [tipo |-> "return"]

\* the frame handed to the target stage: any selection of the columns a
\* stage can require
InitEntrada ==
    /\ ScorerIdle
    /\ ScoreIdle
    /\ BalancerIdle
    /\ g_pc = "start"
    /\ g_frame \in [cols : SUBSET (validacoes.criacao_target \cup {"Viavel"})]
    /\ g_clean = <<>>
    /\ g_X = {}
    /\ g_ret = [tipo |-> "idle"]

\* validar_pipeline_input(df, etapa)
validar_pipeline_input ==
    /\ g_pc # "idle"
    /\ g_pc' = "validar_pipeline_input"
    /\ \E etapa \in DOMAIN validacoes \cup {"desconhecida"} :
          g_ret' = [tipo |-> "return", etapa |-> etapa,
                    valor |-> IF etapa \notin DOMAIN validacoes THEN TRUE
                              ELSE verificar_colunas_necessarias(g_frame.cols,
                                                                 validacoes[etapa])]
    /\ UNCHANGED <<g_frame, g_clean, g_X, scorerVars, scoreVars, balancerVars>>

\* executar_etapa_2(df): TargetCreator(df).executar_criacao_completa(), whose
\* first step is calcular_estatisticas_historicas; no step before it looks
\* at the columns, and nothing catches what it raises
executar_etapa_2 ==
    /\ g_pc # "idle"
    /\ g_pc' = "executar_etapa_2"
    /\ g_ret' = EstatisticasPorColunas(g_frame.cols)
    /\ UNCHANGED <<g_frame, g_clean, g_X, scorerVars, scoreVars, balancerVars>>

NextEntrada ==
    \/ validar_pipeline_input
    \/ executar_etapa_2

SpecEntrada == InitEntrada /\ [][NextEntrada]_vars

\* C22: when the frame lacks DescricaoAssunto or ValorCausa, the target
\* stage ends with a validation error that names a missing column, raised
\* before the aggregation is entered.
C22_MissingColumnIsValidationError ==
    (g_pc = "executar_etapa_2"
        /\ ~({"DescricaoAssunto", "ValorCausa"} \subseteq g_frame.cols)) =>
        /\ g_ret.tipo = "raise"
        /\ g_ret.em = "validacao"
        /\ g_ret.colunas # {}
        /\ g_ret.colunas \cap g_frame.cols = {}

----------------------------------------------------------------------------
\* Further properties of TargetCreator (checked under SpecTarget)

\* C23: calcular_estatisticas_historicas produces exactly one row per
\* category; its Taxa_Sucesso is the resolved records of the category over
\* the records of the category (in thousandths) and lies in [0, 1]; its
\* Potencial_Financeiro is Valor_Medio times Taxa_Sucesso; a category with
\* no resolved record has Taxa_Sucesso 0 and Potencial_Financeiro 0.
C23_SuccessRateIsResolvedFraction ==
    ~stats_assuntos.none =>
        /\ \A a \in Categorias(df) :
              Cardinality({r \in stats_assuntos.rows : r.DescricaoAssunto = a}) = 1
        /\ \A r \in stats_assuntos.rows :
              LET grupo == Grupo(df, r.DescricaoAssunto)
                  resolvidos == Cardinality({i \in grupo : df[i].Atendida = "S"})
              IN  /\ r.DescricaoAssunto \in Categorias(df)
                  /\ r.Taxa_Sucesso
                        = RoundHalfEven(1000 * resolvidos, Cardinality(grupo))
                  /\ 0 <= r.Taxa_Sucesso /\ r.Taxa_Sucesso <= 1000
                  /\ r.Valor_Medio # NaN =>
                        r.Potencial_Financeiro
                           = RoundHalfEven(r.Valor_Medio * r.Taxa_Sucesso, 1000)
                  /\ resolvidos = 0 =>
                        r.Taxa_Sucesso = 0 /\ r.Potencial_Financeiro = 0

----------------------------------------------------------------------------
\* TargetCreator with its analysis and validation methods

MaxRegistros == 1    \* rows of the frame whose methods are called in any order

\* Series.quantile(num/den), linear interpolation, NaN skipped; result
\* times den
Quantil(f, num, den) ==
    LET g == [i \in {i \in DOMAIN f : f[i] # NaN} |-> f[i]]
        n == Cardinality(DOMAIN g)
        h == (n - 1) * num
        lo == h \div den
        r == h % den
    IN  IF n = 0 THEN NaN
        ELSE IF r = 0 THEN den * OrderStat(g, lo)
        ELSE den * OrderStat(g, lo) + r * (OrderStat(g, lo + 1) - OrderStat(g, lo))

\* casos_alto_valor: df[df['ValorCausa'] >= df['ValorCausa'].quantile(0.9)]
CasosAltoValor(rows) ==
    LET valor == [i \in DOMAIN rows |-> rows[i].ValorCausa]
    IN  {i \in DOMAIN rows : valor[i] # NaN /\ 10 * valor[i] >= Quantil(valor, 9, 10)}

\* casos_baixo_valor: df[df['ValorCausa'] <= df['ValorCausa'].quantile(0.2)]
CasosBaixoValor(rows) ==
    LET valor == [i \in DOMAIN rows |-> rows[i].ValorCausa]
    IN  {i \in DOMAIN rows : valor[i] # NaN /\ 5 * valor[i] <= Quantil(valor, 1, 5)}

\* the closing line validar_criterios prints after the three proportions:
\* 'Os critérios parecem estar funcionando adequadamente!', whatever the
\* proportions are
MensagemValidacao(rows) == "criterios_ok"

\* analisar_target_criado(): self.df_com_target is not set by __init__, so
\* reading it before criar_variavel_target stored a frame raises
\* AttributeError
analisar_target_criado ==
    /\ ret # "idle"
    /\ ret' = IF df_com_target.set THEN "analise" ELSE "raise"
    /\ UNCHANGED <<df, stats_assuntos, criterios, df_com_target,
                   scoreVars, guardVars, balancerVars>>

\* validar_criterios(): prints the proportions and the closing line, and
\* returns True
validar_criterios ==
    /\ ret # "idle"
    /\ ret' = IF df_com_target.set THEN MensagemValidacao(df_com_target.rows)
              ELSE "raise"
    /\ UNCHANGED <<df, stats_assuntos, criterios, df_com_target,
                   scoreVars, guardVars, balancerVars>>

\* TargetCreator(df_sindec_com_valores), for frames of up to MaxRegistros rows
InitOrdem ==
    /\ df \in UNION {[1..n -> Record] : n \in 1..MaxRegistros}
    /\ stats_assuntos = [none |-> TRUE, rows |-> {}]
    /\ criterios = CriteriosVazio
    /\ df_com_target = [set |-> FALSE, rows |-> <<>>]
    /\ ret = "novo"
    /\ ScoreIdle
    /\ GuardIdle
    /\ BalancerIdle

NextOrdem ==
    \/ calcular_estatisticas_historicas
    \/ definir_criterios_viabilidade
    \/ criar_variavel_target
    \/ analisar_target_criado
    \/ validar_criterios

SpecOrdem == InitOrdem /\ [][NextOrdem]_vars

\* no record of the top value decile is labelled viable, or no record of
\* the bottom value quintile is labelled not viable
CalibracaoViolada ==
    \/ /\ CasosAltoValor(df_com_target.rows) # {}
       /\ \A i \in CasosAltoValor(df_com_target.rows) : df_com_target.rows[i].Viavel = 0
    \/ /\ CasosBaixoValor(df_com_target.rows) # {}
       /\ \A i \in CasosBaixoValor(df_com_target.rows) : df_com_target.rows[i].Viavel = 1

\* C24: when the labelled data violate a sanity property (here in its
\* plainest form: the top decile has no viable record, or the bottom
\* quintile no not-viable one), the closing line validar_criterios logs is
\* a calibration warning and not the success message.
C24_ViolationIsLoggedAsWarning ==
    (df_com_target.set /\ ret \in {"criterios_ok", "criterios_aviso"}
        /\ CalibracaoViolada) =>
        ret = "criterios_aviso"

\* C29: in any sequence of calls on one TargetCreator, the thresholds exist
\* only if the statistics were computed before them; a labelled frame is
\* returned or stored only if statistics and thresholds both exist, and its
\* rows are labelled with exactly those thresholds; analisar_target_criado
\* and validar_criterios return only when a labelled frame is stored. In
\* every other order the call ends with None or an exception.
C29_FrameOnlyAfterStatsThenCriteria ==
    /\ ~criterios.vazio => ~stats_assuntos.none
    /\ (ret = "frame" \/ df_com_target.set) =>
          /\ ~stats_assuntos.none
          /\ ~criterios.vazio
          /\ df_com_target.set
          /\ df_com_target.rows =
                [i \in DOMAIN df |-> TargetRow(df[i], stats_assuntos.rows, criterios)]
    /\ ret \in {"analise", "criterios_ok"} => df_com_target.set
    /\ (stats_assuntos.none \/ criterios.vazio) =>
          ret \in {"novo", "stats", "None", "raise"}

\* the five methods ran in their order and the last one returned
C29_Witness ==
    /\ ret = "criterios_ok"
    /\ df_com_target.set
    /\ ~criterios.vazio
    /\ ~stats_assuntos.none

\* C26: random_oversample leaves the largest class as it is: every input
\* row of a class that has the largest count appears exactly once in the
\* output.
C26_MajorityRowsKeptOnce ==
    (b_call.op = "_random_oversample" /\ b_ret.tipo = "return") =>
        \A i \in DOMAIN b_dados.y :
           Cardinality(LinhasDaClasse(b_dados.y, b_dados.y[i])) = MaxCount(b_dados.y)
              => Cardinality({k \in DOMAIN b_ret.X : b_ret.X[k] = i}) = 1

\* C27: every strategy name recorded in results_comparison is a key of the
\* current balancing_strategies, and get_best_strategy never fails looking
\* its best strategy up.
C27_ResultsNamesAreCurrentKeys ==
    /\ Keys(results_comparison) \subseteq Keys(balancing_strategies)
    /\ b_call.op = "get_best_strategy" => b_ret.tipo # "raise"

\* C28: evaluate_strategies is all-or-nothing. When it returns,
\* results_comparison is the returned dictionary and holds one metrics entry
\* for each strategy of balancing_strategies, in the same order; when the
\* evaluation of one strategy raises, the call raises, returns no results
\* and results_comparison keeps the value it had before the call.
C28_EvaluateAllOrNothing ==
    [][b_call'.op = "evaluate_strategies" =>
          \/ /\ b_ret'.tipo = "return"
             /\ \A i \in DOMAIN balancing_strategies :
                   ~AvaliacaoFalha(balancing_strategies[i].valor)
             /\ results_comparison' = b_ret'.valor
             /\ Len(results_comparison') = Len(balancing_strategies)
             /\ \A i \in DOMAIN balancing_strategies :
                   /\ results_comparison'[i].nome = balancing_strategies[i].nome
                   /\ results_comparison'[i].valor \in Metricas
          \/ /\ b_ret'.tipo = "raise"
             /\ \E i \in DOMAIN balancing_strategies :
                   AvaliacaoFalha(balancing_strategies[i].valor)
             /\ DOMAIN b_ret' = {"tipo"}
             /\ results_comparison' = results_comparison]_vars

\* an evaluation has raised on the second balanced dataset of a batch, after
\* the first was fit for evaluation, and the results of the evaluation of an
\* earlier, smaller batch are still there
C28_Witness ==
    /\ b_call.op = "evaluate_strategies"
    /\ b_ret.tipo = "raise"
    /\ Len(balancing_strategies) >= 2
    /\ ~AvaliacaoFalha(balancing_strategies[1].valor)
    /\ AvaliacaoFalha(balancing_strategies[2].valor)
    /\ results_comparison # <<>>
    /\ Len(results_comparison) < Len(balancing_strategies)

\* ---------------------------------------------------------------------
\* The final balanced dataset of the training pipeline (balancing.py,
\* main3.py), with DataBalancer available
\* ---------------------------------------------------------------------

\* criar_dataset_final_balanceado(df_com_target, strategy, save_file), where
\* dados is what preparar_dados_para_balanceamento returns for the frame.
\* The DataBalancer is new, so no named strategy is stored; of the pair
\* (None, None) pd.DataFrame makes a frame without rows, which is printed
\* and saved like any other
CriarDatasetFinal(dados, strategy, save_file) ==
    LET final ==
            IF strategy = "auto" /\ Classes(dados.y) = {}
            THEN [tipo |-> "raise"]
            ELSE LET escolhida == IF strategy = "auto" THEN EscolhaAuto(dados.y)
                                  ELSE strategy
                 IN  IF escolhida \in Presets
                     THEN LET r == AplicarPreset(escolhida, dados, TargetRatioDefault)
                          IN  IF r.erro THEN [tipo |-> "raise"]
                              ELSE [tipo |-> "return", y |-> r.dist]
                     ELSE [tipo |-> "None"]
        linhas == IF final.tipo = "return" THEN Total(final.y) ELSE 0
    IN  IF final.tipo = "raise"
        THEN [tipo |-> "raise", arquivo |-> [salvo |-> FALSE, linhas |-> 0]]
        ELSE [tipo |-> "return",
              df_balanced |-> [linhas |-> linhas],
              y_balanced |-> final,
              arquivo |-> [salvo |-> save_file,
                           linhas |-> IF save_file THEN linhas ELSE 0]]

\* the frames of the final-dataset functions have been prepared and no
\* function has run
InitFinal ==
    /\ ScorerIdle
    /\ ScoreIdle
    /\ GuardIdle
    /\ balancing_strategies = <<>>
    /\ results_comparison = <<>>
    /\ b_dados \in DadosLote
    /\ b_call = [op |-> "__init__"]
    /\ b_ret = [tipo |-> "return"]
    /\ random_state = Gerador(RANDOM_STATE)
    /\ b_sorteio = <<>>

\* criar_dataset_final_balanceado called by itself
criar_dataset_final_balanceado ==
    /\ b_call.op # "idle"
    /\ \E strategy \in Presets \cup NomesPedidos, save_file \in BOOLEAN :
          /\ b_call' = [op |-> "criar_dataset_final_balanceado",
                        strategy |-> strategy, save_file |-> save_file]
          /\ b_ret' = CriarDatasetFinal(b_dados, strategy, save_file)
    /\ UNCHANGED <<balancing_strategies, results_comparison, b_dados,
                   random_state, b_sorteio, outrosVars>>

\* the outcomes of the analysis part (run_analysis): not run, finished, or
\* left by an exception of one of its fits
Analises == {"nao", "concluida", "raise"}

\* aplicar_balanceamento_sindec(df_com_target, strategy, run_analysis)
AplicarBalanceamento(dados, strategy, analise) ==
    IF analise = "raise"
    THEN [tipo |-> "raise", arquivo |-> [salvo |-> FALSE, linhas |-> 0]]
    ELSE LET final == CriarDatasetFinal(dados, strategy, TRUE)
         IN  IF final.tipo = "raise" THEN final
             ELSE [tipo |-> "return",
                   df_balanced |-> final.df_balanced,
                   final_dataset |-> TRUE,
                   arquivo |-> final.arquivo]

aplicar_balanceamento_sindec ==
    /\ b_call.op # "idle"
    /\ \E strategy \in Presets \cup NomesPedidos, analise \in Analises :
          /\ b_call' = [op |-> "aplicar_balanceamento_sindec",
                        strategy |-> strategy, run_analysis |-> analise # "nao"]
          /\ b_ret' = AplicarBalanceamento(b_dados, strategy, analise)
    /\ UNCHANGED <<balancing_strategies, results_comparison, b_dados,
                   random_state, b_sorteio, outrosVars>>

\* main3.executar_pipeline_completo(df_com_target, strategy, run_analysis):
\* the balancing stage, then treinar_modelo_limpo(df_balanced), which returns
\* its results, returns None or raises; a frame without rows cannot be split
executar_pipeline_completo ==
    /\ b_call.op # "idle"
    /\ \E strategy \in Presets \cup NomesPedidos, analise \in Analises :
          LET balanceado == AplicarBalanceamento(b_dados, strategy, analise)
          IN  /\ b_call' = [op |-> "executar_pipeline_completo",
                            strategy |-> strategy, run_analysis |-> analise # "nao"]
              /\ IF balanceado.tipo = "raise"
                 THEN b_ret' = [tipo |-> "raise", etapas |-> <<"balanceamento">>,
                                arquivo |-> balanceado.arquivo]
                 ELSE \E treino \in {"return", "None", "raise"} :
                         /\ balanceado.df_balanced.linhas = 0 => treino # "return"
                         /\ b_ret' = [tipo |-> treino,
                                      etapas |-> <<"balanceamento", "treinamento">>,
                                      treinar_modelo_limpo |-> balanceado.df_balanced,
                                      arquivo |-> balanceado.arquivo]
    /\ UNCHANGED <<balancing_strategies, results_comparison, b_dados,
                   random_state, b_sorteio, outrosVars>>

NextFinal ==
    \/ criar_dataset_final_balanceado
    \/ aplicar_balanceamento_sindec
    \/ executar_pipeline_completo

SpecFinal == InitFinal /\ [][NextFinal]_vars

\* C25: with DataBalancer available, an unknown strategy name given to
\* criar_dataset_final_balanceado or aplicar_balanceamento_sindec (directly
\* or through the training pipeline) ends the call with the
\* strategy-not-found error: nothing is returned, no file is saved and the
\* training stage does not run.
C25_UnknownStrategyPropagates ==
    (/\ b_call.op \in {"criar_dataset_final_balanceado",
                       "aplicar_balanceamento_sindec",
                       "executar_pipeline_completo"}
     /\ b_call.strategy \notin Presets) =>
        /\ b_ret.tipo = "raise"
        /\ ~b_ret.arquivo.salvo
        /\ b_call.op = "executar_pipeline_completo" =>
              b_ret.etapas = <<"balanceamento">>

\* ---------------------------------------------------------------------
\* SindecOrchestrator (main_orchestrator.py), run from its command line
\* ---------------------------------------------------------------------

MaxEtapas == 2

\* --etapas: absent, or one or more of the choices 1, 2, 3
ListasDeEtapas ==
    {[tipo |-> "None"]}
    \cup {[tipo |-> "list", etapas |-> l] :
             l \in UNION {[1..k -> 1..3] : k \in 1..MaxEtapas}}

\* SindecOrchestrator(log_level): setup_logging runs first and logs through
\* self.logger, which __init__ assigns only after setup_logging has returned;
\* the AttributeError leaves the constructor
SindecOrchestrator == [tipo |-> "raise"]

RECURSIVE ExecutarEtapas(_, _, _, _)

\* the loop over sorted(etapas): executar_pipeline records the status of the
\* stage and the first stage without success ends the loop
ExecutarEtapas(ordenadas, amb, executadas, resultados) ==
    IF ordenadas = <<>>
    THEN [retorno |-> TRUE, executadas |-> executadas,
          resultados_execucao |-> resultados]
    ELSE LET etapa == Head(ordenadas)
             sucesso == amb.sucesso[etapa]
             gravado == [resultados EXCEPT
                            ![etapa] = IF sucesso THEN "sucesso" ELSE "erro"]
         IN  IF sucesso
             THEN ExecutarEtapas(Tail(ordenadas), amb,
                                 Append(executadas, etapa), gravado)
             ELSE [retorno |-> FALSE, executadas |-> Append(executadas, etapa),
                   resultados_execucao |-> gravado]

\* executar_pipeline_completo(arquivo_dados, etapas) of an orchestrator with
\* the given resultados_execucao
ExecutarPipelineCompleto(amb, etapas, resultados) ==
    LET lista == IF etapas.tipo = "None" THEN <<1, 2, 3>> ELSE etapas.etapas
    IN  IF ~amb.arquivo_dados
           \/ \E i \in DOMAIN lista : lista[i] \notin amb.arquivos_main
        THEN [retorno |-> FALSE, executadas |-> <<>>,
              resultados_execucao |-> resultados]
        ELSE ExecutarEtapas(SortSeq(lista, LAMBDA a, b : a < b), amb,
                            <<>>, resultados)

\* the files that exist and the outcome each stage would have
InitOrquestrador ==
    /\ ScorerIdle
    /\ ScoreIdle
    /\ GuardIdle
    /\ balancing_strategies = <<>>
    /\ results_comparison = <<>>
    /\ b_dados \in [arquivo_dados : BOOLEAN,
                    arquivos_main : SUBSET (1..3),
                    sucesso : [1..3 -> BOOLEAN]]
    /\ b_call = [op |-> "__init__"]
    /\ b_ret = [tipo |-> "return"]
    /\ random_state = Gerador(RANDOM_STATE)
    /\ b_sorteio = <<>>

\* main(): python main_orchestrator.py arquivo [--etapas ...]; any exception
\* is printed and the exit code is 1
main ==
    /\ b_call.op # "idle"
    /\ \E etapas \in ListasDeEtapas :
          LET orchestrator == SindecOrchestrator
          IN  /\ b_call' = [op |-> "main", etapas |-> etapas]
              /\ IF orchestrator.tipo = "raise"
                 THEN b_ret' = [tipo |-> "return", codigo |-> 1,
                                executadas |-> <<>>,
                                resultados_execucao |-> [e \in 1..3 |-> "nenhum"]]
                 ELSE LET r == ExecutarPipelineCompleto(
                                   b_dados, etapas, orchestrator.resultados_execucao)
                      IN  b_ret' = [tipo |-> "return",
                                    codigo |-> IF r.retorno THEN 0 ELSE 1,
                                    executadas |-> r.executadas,
                                    resultados_execucao |-> r.resultados_execucao]
    /\ UNCHANGED <<balancing_strategies, results_comparison, b_dados,
                   random_state, b_sorteio, outrosVars>>

NextOrquestrador == main

SpecOrquestrador == InitOrquestrador /\ [][NextOrquestrador]_vars

\* C30: the orchestrator runs the requested stages in ascending stage
\* number whatever order they were given in and stops after the first stage
\* that fails; the run succeeds if and only if every requested stage was
\* executed and recorded with status 'sucesso'; when the data file or a
\* stage file is missing the run fails without executing any stage.
C30_RequestedStagesRunAscending ==
    b_call.op = "main" =>
        LET lista == IF b_call.etapas.tipo = "None" THEN <<1, 2, 3>>
                     ELSE b_call.etapas.etapas
            pedidas == SortSeq(lista, LAMBDA a, b : a < b)
            executadas == b_ret.executadas
            n == Len(executadas)
        IN  IF ~b_dados.arquivo_dados
               \/ \E i \in DOMAIN lista : lista[i] \notin b_dados.arquivos_main
            THEN b_ret.codigo = 1 /\ executadas = <<>>
            ELSE /\ n <= Len(pedidas)
                 /\ executadas = SubSeq(pedidas, 1, n)
                 /\ \A i \in 1..(n - 1) : b_dados.sucesso[executadas[i]]
                 /\ n < Len(pedidas) =>
                       n >= 1 /\ ~b_dados.sucesso[executadas[n]]
                 /\ b_ret.codigo = 0 <=>
                       /\ executadas = pedidas
                       /\ \A i \in 1..n :
                             b_ret.resultados_execucao[executadas[i]] = "sucesso"

====
